---- MODULE Spec2Model ----
(***************************************************************************)
(* Radiology Center workflow tracker: the Apps Script row store and        *)
(* dispatcher (src/gas/Code.gs) and the browser client (src/js/app.js,     *)
(* src/js/api.js).                                                         *)
(*                                                                         *)
(* JavaScript values are encoded as TLA+ strings:                          *)
(*   a string s          is  s                                             *)
(*   undefined / null    is  "~undefined"                                  *)
(*   the number n        is  "#" followed by its decimal digits            *)
(*   a Date object at t  is  "@" followed by t                             *)
(*   its ISO string      is  "T" followed by t                             *)
(* Objects are functions from key strings to values, arrays are sequences. *)
(* A null object reference (App.state.user, a missing localStorage item) is *)
(* the record null.                                                        *)
(***************************************************************************)
EXTENDS Integers, Sequences, FiniteSets, TLC

VARIABLES db, now, last, prev, served, app, net, ev

storeVars == <<db, now, last, prev, served>>
clientVars == <<app, net, ev>>
vars == <<db, now, last, prev, served, app, net, ev>>

\* ------------------------------------------------------------------ bounds
MaxClock == 1
MaxRows == 2
MaxRand == 2
MaxRequests == 2
MaxPending == 1
MaxQueue == 2
MaxDepth == 3

\* ------------------------------------------------------- JS value encoding
Undefined == "~undefined"
Num(n) == "#" \o ToString(n)
DateObj(t) == "@" \o ToString(t)
ISO(t) == "T" \o ToString(t)

IsNum(v) == v # "" /\ Head(v) = "#"
IsDate(v) == v # "" /\ Head(v) = "@"

\* JS truthiness of a value: undefined, null, '' and 0 are falsy
Falsy(v) == v = Undefined \/ v = "" \/ v = Num(0)

\* String(v)
String(v) ==
  IF v = Undefined THEN "undefined"
  ELSE IF IsNum(v) THEN Tail(v)
  ELSE v

\* JSON.stringify followed by JSON.parse/response.json() of one value:
\* strings and numbers survive, a Date becomes its ISO string
ToJSON(v) == IF IsDate(v) THEN "T" \o Tail(v) ELSE v

\* obj[key] for an object held as a function
Get(obj, key) == IF key \in DOMAIN obj THEN obj[key] ELSE Undefined

SetMax(S) == CHOOSE x \in S : \A y \in S : y <= x
SetMin(S) == CHOOSE x \in S : \A y \in S : x <= y

\* ------------------------------------------------- spreadsheet primitives
\* A sheet holds its data range: a rectangular grid of cells, '' when blank.
NoSheet == [exists |-> FALSE, rows |-> <<>>]
Sheet(rows) == [exists |-> TRUE, rows |-> rows]

CellOf(rows, r, c) ==
  IF r <= Len(rows) /\ c <= Len(rows[r]) THEN rows[r][c] ELSE ""

RowLast(row) ==
  LET S == {c \in 1..Len(row) : row[c] # ""}
  IN IF S = {} THEN 0 ELSE SetMax(S)

getLastRow(rows) ==
  LET S == {r \in 1..Len(rows) : RowLast(rows[r]) > 0}
  IN IF S = {} THEN 0 ELSE SetMax(S)

getLastColumn(rows) ==
  LET S == {RowLast(rows[r]) : r \in 1..Len(rows)}
  IN IF S = {} THEN 0 ELSE SetMax(S)

\* the grid cut to its data range
Norm(rows) ==
  LET LR == getLastRow(rows)
      LC == getLastColumn(rows)
  IN [r \in 1..LR |-> [c \in 1..LC |-> CellOf(rows, r, c)]]

\* sheet.getDataRange().getValues(): a blank sheet yields one blank cell
getValues(rows) == IF Len(rows) = 0 THEN << <<"">> >> ELSE rows

appendRow(rows, row) ==
  Norm(SubSeq(rows, 1, getLastRow(rows)) \o <<row>>)

setValue(rows, r, c, v) ==
  LET R == IF r > Len(rows) THEN r ELSE Len(rows)
      W == getLastColumn(rows)
      C == IF c > W THEN c ELSE W
  IN Norm([i \in 1..R |-> [j \in 1..C |->
            IF i = r /\ j = c THEN v ELSE CellOf(rows, i, j)]])

sheetDeleteRow(rows, r) ==
  Norm([i \in 1..(Len(rows) - 1) |-> IF i < r THEN rows[i] ELSE rows[i + 1]])

\* index of the first occurrence of x in the sequence s, 0 when absent
IndexOf(s, x) ==
  LET S == {i \in 1..Len(s) : s[i] = x}
  IN IF S = {} THEN 0 ELSE SetMin(S)

SeqToSet(s) == {s[i] : i \in 1..Len(s)}

\* ------------------------------------------------------------ Code.gs
SHEETS == <<"Patients", "Visits", "Studies", "Templates", "Users">>

schema == [
  Patients |-> <<"id", "full_name", "dob", "age", "gender", "phone", "diagnosis",
                 "complaint", "medical_history", "allergies", "created_at">>,
  Visits |-> <<"id", "patient_id", "status", "check_in_time", "referrer_doctor",
               "assigned_doctor_id", "created_at">>,
  Studies |-> <<"id", "visit_id", "modality", "region", "study_name", "price",
                "status", "technician", "radiologist", "assigned_doctor_id",
                "report_content", "completed_at", "image_links", "created_at">>,
  Templates |-> <<"id", "modality", "region", "title", "content", "fields_json",
                  "is_active", "created_at">>,
  Users |-> <<"id", "email", "full_name", "role", "pin", "created_at">>]

DefaultAdminRow(t) ==
  <<"USR-ADMIN", "admin@center.com", "System Admin", "Admin", "1234", DateObj(t)>>

\* Schema Migration: append the missing columns after the last column
migrateHeaders(rows, desiredHeaders) ==
  LET currentHeaders == SeqToSet(rows[1])
      missing == SelectSeq(desiredHeaders, LAMBDA h : h \notin currentHeaders)
  IN Norm([r \in 1..Len(rows) |-> IF r = 1 THEN rows[1] \o missing ELSE rows[r]])

\* variant: the default administrator is seeded on every run, not only at creation
setupSheet_reseed(sh, sheetName, t) ==
  LET inserted == IF sh.exists THEN sh.rows ELSE <<>>
      headed == IF getLastRow(inserted) = 0
                  THEN appendRow(inserted, schema[sheetName])
                  ELSE migrateHeaders(inserted, schema[sheetName])
  IN IF sheetName = "Users"
       THEN Sheet(appendRow(headed, DefaultAdminRow(t)))
       ELSE Sheet(headed)

setupSheet(sh, sheetName, t) ==
  LET inserted == IF sh.exists THEN sh.rows ELSE <<>>
      outdated == /\ getLastRow(inserted) # 0
                  /\ sheetName = "Users"
                  /\ CellOf(inserted, 1, 1) = "email"
      shouldInit == getLastRow(inserted) = 0 \/ outdated
      cleared == IF outdated THEN <<>> ELSE inserted
      headed == appendRow(cleared, schema[sheetName])
  IN IF shouldInit
       THEN IF sheetName = "Users"
              THEN Sheet(appendRow(headed, DefaultAdminRow(t)))
              ELSE Sheet(headed)
       ELSE Sheet(migrateHeaders(inserted, schema[sheetName]))

setup(d, t) == [s \in DOMAIN d |-> setupSheet(d[s], s, t)]

\* one row as an object keyed by header; a repeated header keeps the last cell
RowObject(headers, row) ==
  [h \in SeqToSet(headers) |->
     row[SetMax({c \in 1..Len(headers) : headers[c] = h})]]

getSheetData(d, sheetName) ==
  IF ~d[sheetName].exists THEN <<>>
  ELSE LET rows == getValues(d[sheetName].rows)
           headers == rows[1]
       IN [i \in 1..(Len(rows) - 1) |-> RowObject(headers, rows[i + 1])]

getAllData(d) ==
  [status |-> "success",
   data |-> [patients |-> getSheetData(d, "Patients"),
             visits |-> getSheetData(d, "Visits"),
             studies |-> getSheetData(d, "Studies"),
             templates |-> getSheetData(d, "Templates"),
             users |-> getSheetData(d, "Users")]]

ErrorResult(msg) == [status |-> "error", message |-> msg]
Outcome(d, result) == [db |-> d, result |-> result]

\* createRow; isNull tells that the payload is null, rnd is Math.random()'s draw
createRow(d, sheetName, data, isNull, prefix, t, rnd) ==
  IF ~d[sheetName].exists THEN Outcome(d, ErrorResult("TypeError"))
  ELSE IF getLastColumn(d[sheetName].rows) = 0 THEN Outcome(d, ErrorResult("Exception"))
  ELSE IF isNull THEN Outcome(d, ErrorResult("TypeError"))
  ELSE
    LET rows == d[sheetName].rows
        headers == rows[1]
        id == IF Falsy(Get(data, "id")) THEN prefix \o "-" \o ToString(rnd)
              ELSE data["id"]
        created == IF Falsy(Get(data, "created_at")) THEN DateObj(t)
                   ELSE data["created_at"]
        field(h) == IF h = "id" THEN id
                    ELSE IF h = "created_at" THEN created
                    ELSE Get(data, h)
        row == [c \in 1..Len(headers) |->
                  IF Falsy(field(headers[c])) THEN "" ELSE field(headers[c])]
    IN Outcome([d EXCEPT ![sheetName] = Sheet(appendRow(rows, row))],
               [status |-> "success", data |-> [id |-> id]])

\* the data row (1-based sheet row number) updateRow / deleteRow address, 0 if none
\* variant: the last row with the id is taken
FindRow_last(rows, id) ==
  LET data == getValues(rows)
      S == {i \in 2..Len(data) : String(data[i][1]) = String(id)}
  IN IF S = {} THEN 0 ELSE SetMax(S)

FindRow(rows, id) ==
  LET data == getValues(rows)
      S == {i \in 2..Len(data) : String(data[i][1]) = String(id)}
  IN IF S = {} THEN 0 ELSE SetMin(S)

\* variant: the 0-based column index is used as the 1-based column number
RECURSIVE WriteColumns_zeroBased(_, _, _, _)
WriteColumns_zeroBased(rows, rowIndex, headers, updates) ==
  IF updates = <<>> THEN rows
  ELSE LET key == Head(updates)[1]
           colIndex == IndexOf(headers, key)
           written == IF colIndex > 1
                        THEN setValue(rows, rowIndex, colIndex - 1, Head(updates)[2])
                        ELSE rows
       IN WriteColumns_zeroBased(written, rowIndex, headers, Tail(updates))

RECURSIVE WriteColumns(_, _, _, _)
WriteColumns(rows, rowIndex, headers, updates) ==
  IF updates = <<>> THEN rows
  ELSE LET key == Head(updates)[1]
           colIndex == IndexOf(headers, key)
           written == IF colIndex > 0
                        THEN setValue(rows, rowIndex, colIndex, Head(updates)[2])
                        ELSE rows
       IN WriteColumns(written, rowIndex, headers, Tail(updates))

\* variant: an id that is not found is passed over in silence
updateRow_silent(d, sheetName, id, updates) ==
  IF ~d[sheetName].exists THEN Outcome(d, ErrorResult("TypeError"))
  ELSE
    LET rows == d[sheetName].rows
        rowIndex == FindRow(rows, id)
        headers == getValues(rows)[1]
    IN IF rowIndex = 0 THEN Outcome(d, [status |-> "success"])
       ELSE Outcome([d EXCEPT ![sheetName] =
                       Sheet(WriteColumns(rows, rowIndex, headers, updates))],
                    [status |-> "success"])

\* updateRow; updates is the sequence of <<key, value>> in Object.keys order
updateRow(d, sheetName, id, updates) ==
  IF ~d[sheetName].exists THEN Outcome(d, ErrorResult("TypeError"))
  ELSE
    LET rows == d[sheetName].rows
        rowIndex == FindRow(rows, id)
        headers == getValues(rows)[1]
    IN IF rowIndex = 0 THEN Outcome(d, ErrorResult("ID not found"))
       ELSE Outcome([d EXCEPT ![sheetName] =
                       Sheet(WriteColumns(rows, rowIndex, headers, updates))],
                    [status |-> "success"])

deleteRow(d, sheetName, id) ==
  IF ~d[sheetName].exists THEN Outcome(d, ErrorResult("TypeError"))
  ELSE
    LET rows == d[sheetName].rows
        rowIndex == FindRow(rows, id)
    IN IF rowIndex = 0 THEN Outcome(d, ErrorResult("ID not found"))
       ELSE Outcome([d EXCEPT ![sheetName] = Sheet(sheetDeleteRow(rows, rowIndex))],
                    [status |-> "success"])

\* the request body e.postData.contents
NoBody == [kind |-> "none"]
BadBody == [kind |-> "unparseable"]
JsonBody(obj) == [kind |-> "json", val |-> obj]

\* an object's own keys in a fixed enumeration order, as <<key, value>> pairs
RECURSIVE KeysOf(_, _)
KeysOf(obj, keys) ==
  IF keys = {} THEN <<>>
  ELSE LET k == CHOOSE x \in keys : TRUE
       IN <<<<k, obj[k]>>>> \o KeysOf(obj, keys \ {k})

\* JSON.stringify of an array of strings
RECURSIVE JoinLinks(_)
JoinLinks(links) ==
  IF links = <<>> THEN ""
  ELSE IF Len(links) = 1 THEN "\"" \o links[1] \o "\""
  ELSE "\"" \o links[1] \o "\"," \o JoinLinks(Tail(links))

StringifyLinks(links) == "[" \o JoinLinks(links) \o "]"

\* JSON.stringify(result) of a getAllData result, as the client parses it
Stringified(result) ==
  [status |-> result.status,
   data |-> [coll \in DOMAIN result.data |->
               [i \in 1..Len(result.data[coll]) |->
                  [h \in DOMAIN result.data[coll][i] |->
                     ToJSON(result.data[coll][i][h])]]]]

handleRequest(d, action, body, t, rnd) ==
  LET isNull == body.kind # "json"
      payload == IF isNull THEN <<>> ELSE body.val
  IN CASE action = "getAllData" ->
            LET migrated == setup(d, t)
                result == getAllData(migrated)
            IN Outcome(migrated, Stringified(result))
       [] action = "createPatient" -> createRow(d, "Patients", payload, isNull, "PT", t, rnd)
       [] action = "createVisit" -> createRow(d, "Visits", payload, isNull, "VS", t, rnd)
       [] action = "createStudy" -> createRow(d, "Studies", payload, isNull, "ST", t, rnd)
       [] action = "createUser" -> createRow(d, "Users", payload, isNull, "USR", t, rnd)
       [] action = "updateStudyStatus" ->
            IF isNull THEN Outcome(d, ErrorResult("TypeError"))
            ELSE updateRow(d, "Studies", Get(payload, "id"),
                           <<<<"status", Get(payload, "status")>>>>)
       [] action = "saveReport" ->
            IF isNull THEN Outcome(d, ErrorResult("TypeError"))
            ELSE updateRow(d, "Studies", Get(payload, "study_id"),
                           <<<<"report_content", Get(payload, "content_html")>>,
                             <<"status", "Reported">>>>)
       [] action = "markComplete" ->
            IF isNull THEN Outcome(d, ErrorResult("TypeError"))
            ELSE updateRow(d, "Studies", Get(payload, "study_id"),
                           <<<<"status", "Completed">>,
                             <<"completed_at", ISO(t)>>>>)
       [] action = "updateImageLinks" ->
            IF isNull THEN Outcome(d, ErrorResult("TypeError"))
            ELSE updateRow(d, "Studies", Get(payload, "study_id"),
                           <<<<"image_links",
                               IF "image_links" \in DOMAIN payload
                                 THEN StringifyLinks(payload["image_links"])
                                 ELSE StringifyLinks(<<>>)>>>>)
       [] action = "saveTemplate" ->
            IF isNull THEN Outcome(d, ErrorResult("TypeError"))
            ELSE IF ~Falsy(Get(payload, "id"))
              THEN updateRow(d, "Templates", payload["id"], KeysOf(payload, DOMAIN payload))
              ELSE createRow(d, "Templates", payload, isNull, "TPL", t, rnd)
       [] action = "deleteTemplate" ->
            IF isNull THEN Outcome(d, ErrorResult("TypeError"))
            ELSE deleteRow(d, "Templates", Get(payload, "id"))
       [] OTHER -> Outcome(d, ErrorResult("Unknown Action"))

\* ------------------------------------------------------------ sample data
\* columns the earlier client (src/unnamed/part_002) did not use yet
addedLater == [
  Patients |-> {"age", "diagnosis", "complaint", "medical_history", "allergies"},
  Visits |-> {"assigned_doctor_id"},
  Studies |-> {"assigned_doctor_id", "completed_at", "image_links"},
  Templates |-> {},
  Users |-> {}]

legacyHeaders(sheetName) ==
  SelectSeq(schema[sheetName], LAMBDA h : h \notin addedLater[sheetName])

outdatedUsersHeaders == <<"email", "full_name", "role", "pin">>

PatientAhmed ==
  [id |-> "PT-1", full_name |-> "Ahmed", dob |-> "1985-04-12", age |-> Num(40),
   gender |-> "Male", phone |-> "0599", complaint |-> "pain",
   created_at |-> ISO(0)]

VisitOne ==
  [id |-> "VS-1", patient_id |-> "PT-1", status |-> "In Progress",
   check_in_time |-> "D1T09", referrer_doctor |-> "",
   assigned_doctor_id |-> "USR-R", created_at |-> ISO(0)]

StudyRecord(id, status) ==
  [id |-> id, visit_id |-> "VS-1", modality |-> "US", region |-> "Abdomen",
   study_name |-> "US Abdomen", price |-> Num(0), status |-> status,
   assigned_doctor_id |-> "USR-R",
   report_content |-> IF status \in {"Reported", "Completed"} THEN "<p>ok</p>" ELSE "",
   completed_at |-> IF status = "Completed" THEN ISO(0) ELSE "",
   created_at |-> ISO(0)]

UserRecord(id, role, pin) ==
  [id |-> id, email |-> "u@center.com", full_name |-> id, role |-> role,
   pin |-> pin, created_at |-> ISO(0)]

TemplateOne ==
  [id |-> "TPL-1", modality |-> "US", region |-> "Abdomen", title |-> "Normal",
   content |-> "<p>t</p>", is_active |-> "yes", created_at |-> ISO(0)]

\* the cells of an object under the given headers, as createRow lays them out
RowOf(headers, obj) ==
  [c \in 1..Len(headers) |->
     IF Falsy(Get(obj, headers[c])) THEN "" ELSE obj[headers[c]]]

Table(headers, objs) ==
  Sheet(Norm(<<headers>> \o [i \in 1..Len(objs) |-> RowOf(headers, objs[i])]))

Statuses == {"Waiting", "Scanning", "Reporting", "Reported", "Completed"}

StaffUsers ==
  <<UserRecord("USR-ADMIN", "Admin", "1234"),
    UserRecord("USR-R", "Radiologist", Num(1111)),
    UserRecord("USR-T", "Technician", "2222"),
    UserRecord("USR-C", "Reception", "3333")>>

\* stores the backend can be found in: no sheets yet, blank sheets, sheets of
\* the earlier schema, and sheets of the current schema
MissingStore == [s \in SeqToSet(SHEETS) |-> NoSheet]
BlankStore == [s \in SeqToSet(SHEETS) |-> Sheet(<<>>)]

LegacyStore(st) ==
  [Patients |-> Table(legacyHeaders("Patients"), <<PatientAhmed>>),
   Visits |-> Table(legacyHeaders("Visits"), <<VisitOne>>),
   Studies |-> Table(legacyHeaders("Studies"),
                     <<StudyRecord("ST-1", st), StudyRecord("ST-2", "Waiting")>>),
   Templates |-> NoSheet,
   Users |-> Table(outdatedUsersHeaders, <<UserRecord("USR-ADMIN", "Admin", "1234")>>)]

CurrentStore(studies) ==
  [Patients |-> Table(schema["Patients"], <<PatientAhmed>>),
   Visits |-> Table(schema["Visits"], <<VisitOne>>),
   Studies |-> Table(schema["Studies"], studies),
   Templates |-> Table(schema["Templates"], <<TemplateOne>>),
   Users |-> Table(schema["Users"], StaffUsers)]

DataRows(d, sheetName) ==
  IF Len(d[sheetName].rows) = 0 THEN 0 ELSE Len(d[sheetName].rows) - 1

\* ------------------------------------------------------------ app.js: RBAC
null == [isNull |-> TRUE]

\* variant: the patient may also open the reception desk
permissions_patientDesk ==
  [Reception |-> <<"reception">>,
   Technician |-> <<"technician">>,
   Radiologist |-> <<"reception", "technician", "radiologist">>,
   Admin |-> <<"reception", "technician", "radiologist", "admin">>,
   Patient |-> <<"patient-portal", "reception">>]

permissions ==
  [Reception |-> <<"reception">>,
   Technician |-> <<"technician">>,
   Radiologist |-> <<"reception", "technician", "radiologist">>,
   Admin |-> <<"reception", "technician", "radiologist", "admin">>,
   Patient |-> <<"patient-portal">>]

canAccess(role, page) ==
  LET allowed == IF role \in DOMAIN permissions THEN permissions[role] ELSE <<>>
  IN page \in SeqToSet(allowed)

\* variant: every role lands on the reception desk
getDefaultPage_reception(role) == "reception"

getDefaultPage(role) ==
  LET pages == IF role \in DOMAIN permissions THEN permissions[role]
               ELSE <<"reception">>
  IN pages[1]

getAllowedPages(role) ==
  IF role \in DOMAIN permissions THEN permissions[role] ELSE <<>>

actionPermissions ==
  [createVisit |-> {"Reception", "Admin"},
   createPatient |-> {"Reception", "Admin"},
   startScan |-> {"Technician", "Admin"},
   completeScan |-> {"Technician", "Admin"},
   writeReport |-> {"Radiologist", "Admin"},
   markComplete |-> {"Radiologist", "Admin"},
   manageUsers |-> {"Admin"},
   viewAllPatients |-> {"Radiologist", "Admin"}]

hasPermission(a, action) ==
  IF a.user = null THEN FALSE
  ELSE LET allowed == IF action \in DOMAIN actionPermissions
                        THEN actionPermissions[action] ELSE {}
       IN Get(a.user, "role") \in allowed

\* ----------------------------------------------------- app.js: the client
\* One browser tab: App.state, the 'rad_user' item of localStorage, and what
\* the page shows (content of #app-content, login modal, login form, overlay,
\* the text of the alert raised by the last event).

\* #editor-panel: empty, or the report editor of the study at index study of
\* App.state.studies with the buttons it was drawn with
NoEditor == [study |-> 0, isAssigned |-> FALSE, markButton |-> FALSE]

FreshApp(stored, modalShown) ==
  [user |-> null, users |-> <<>>, patients |-> <<>>, visits |-> <<>>,
   studies |-> <<>>, currentView |-> "reception",
   rad_user |-> stored,
   content |-> "none", loginModal |-> modalShown, mode |-> "staff",
   loginUser |-> "", loading |-> FALSE, alerted |-> "",
   activeTab |-> "reporting", editor |-> NoEditor, currentStudy |-> 0,
   quill |-> Undefined, viewer |-> 0,
   visitModal |-> FALSE, visitDate |-> "", tempQueue |-> <<>>,
   patientModal |-> FALSE,
   myListMode |-> FALSE, listed |-> {}]

alert(a, msg) == [a EXCEPT !.alerted = msg]

showLoading(a, show) == [a EXCEPT !.loading = show]

\* the first element of a collection whose field equals the value, 0 if none
FindBy(coll, field, value) ==
  LET S == {i \in 1..Len(coll) : Get(coll[i], field) = value}
  IN IF S = {} THEN 0 ELSE SetMin(S)

\* the visit of a study is found, as the worklists require before listing it
HasVisit(a, study) == FindBy(a.visits, "id", Get(study, "visit_id")) > 0

\* variant: the list is drawn without the My List filter
RadiologistList_all(a) ==
  {i \in 1..Len(a.studies) :
     /\ HasVisit(a, a.studies[i])
     /\ IF a.activeTab = "reporting"
          THEN Get(a.studies[i], "status") \in {"Reporting", "Reported"}
          ELSE Get(a.studies[i], "status") = "Completed"}

\* the studies the radiologist list draws under the active tab, on the date
\* of their visit
RadiologistList(a) ==
  {i \in 1..Len(a.studies) :
     /\ HasVisit(a, a.studies[i])
     /\ IF a.activeTab = "reporting"
          THEN Get(a.studies[i], "status") \in {"Reporting", "Reported"}
          ELSE Get(a.studies[i], "status") = "Completed"
     /\ a.myListMode => Get(a.studies[i], "assigned_doctor_id") = Get(a.user, "id")}

\* #app-content is rewritten, the editor panel with it; listed are the
\* studies whose cards the radiologist list shows
renderPage(a, pageId) ==
  [a EXCEPT !.content = pageId, !.editor = NoEditor,
            !.listed = IF pageId = "radiologist" THEN RadiologistList(a) ELSE {}]

updateUserDisplay(a) == [a EXCEPT !.loginModal = (a.user = null)]

\* the values of the options of #login-user
LoginOptions(a) ==
  IF Len(a.users) = 0 THEN <<"No users found (Syncing...)">>
  ELSE <<"">> \o [i \in 1..Len(a.users) |-> String(Get(a.users[i], "id"))]

\* select.value = v: an absent option leaves nothing selected
SelectValue(a, v) ==
  [a EXCEPT !.loginUser = IF v \in SeqToSet(LoginOptions(a)) THEN v ELSE ""]

\* rewriting the options selects the first one
populateLoginDropdown(a) == [a EXCEPT !.loginUser = LoginOptions(a)[1]]

switchLogin(a, mode) == SelectValue([a EXCEPT !.mode = mode], "")

showLogin(a) ==
  switchLogin(populateLoginDropdown([a EXCEPT !.loginModal = TRUE]), "staff")

showRelogin(a, savedUser) ==
  LET shown == populateLoginDropdown([a EXCEPT !.loginModal = TRUE])
      selected == SelectValue(shown, String(Get(savedUser, "id")))
  IN switchLogin(selected, "staff")

\* String.prototype.trim, toUpperCase and substring(0, n)
RECURSIVE trimStart(_)
trimStart(s) == IF s # "" /\ Head(s) = " " THEN trimStart(Tail(s)) ELSE s

RECURSIVE trimEnd(_)
trimEnd(s) ==
  IF s # "" /\ SubSeq(s, Len(s), Len(s)) = " "
    THEN trimEnd(SubSeq(s, 1, Len(s) - 1))
    ELSE s

trim(s) == trimEnd(trimStart(s))

upperCase ==
  [a |-> "A", b |-> "B", c |-> "C", d |-> "D", e |-> "E", f |-> "F", g |-> "G",
   h |-> "H", i |-> "I", j |-> "J", k |-> "K", l |-> "L", m |-> "M", n |-> "N",
   o |-> "O", p |-> "P", q |-> "Q", r |-> "R", s |-> "S", t |-> "T", u |-> "U",
   v |-> "V", w |-> "W", x |-> "X", y |-> "Y", z |-> "Z"]

RECURSIVE toUpperCase(_)
toUpperCase(s) ==
  IF s = "" THEN ""
  ELSE (IF Head(s) \in DOMAIN upperCase THEN upperCase[Head(s)] ELSE Head(s))
         \o toUpperCase(Tail(s))

substring(s, n) == SubSeq(s, 1, IF Len(s) < n THEN Len(s) ELSE n)

\* JSON.parse(JSON.stringify(obj)) of a flat object: what localStorage gives back
StoredJSON(obj) == [key \in DOMAIN obj |-> ToJSON(obj[key])]

\* ------------------------------------------------------ app.js: the router
RECURSIVE navigate(_, _)

patientPortalRender(a) ==
  IF a.user = null \/ Get(a.user, "role") # "Patient"
    THEN navigate([a EXCEPT !.user = null], "reception")
    ELSE renderPage(a, "patient-portal")

\* the switch over the page in navigate
renderView(a, page) ==
  CASE page = "reception" -> renderPage(a, "reception")
    [] page = "technician" -> renderPage(a, "technician")
    [] page = "radiologist" -> renderPage(a, "radiologist")
    [] page = "admin" -> renderPage(a, "admin")
    [] page = "patient-portal" -> patientPortalRender(a)
    [] OTHER -> a

\* variant: the page is rendered without the role check
navigate_unguarded(a, page) ==
  IF a.user = null THEN showLogin(a)
  ELSE renderView([a EXCEPT !.currentView = page], page)

\* variant: a denied request is dropped instead of redirected
navigate_noRedirect(a, page) ==
  IF a.user = null THEN showLogin(a)
  ELSE IF ~canAccess(Get(a.user, "role"), page) THEN a
  ELSE renderView([a EXCEPT !.currentView = page], page)

navigate(a, page) ==
  IF a.user = null THEN showLogin(a)
  ELSE IF ~canAccess(Get(a.user, "role"), page)
    THEN LET defaultPage == getDefaultPage(Get(a.user, "role"))
         IN IF page # defaultPage THEN navigate(a, defaultPage) ELSE a
  ELSE renderView([a EXCEPT !.currentView = page], page)

\* variant: a denied request is redirected whatever the page asked for
RECURSIVE navigateCalls_always(_, _, _)
navigateCalls_always(a, page, depth) ==
  IF depth = 0 THEN <<"~unfinished">>
  ELSE IF a.user = null THEN <<page>>
  ELSE IF ~canAccess(Get(a.user, "role"), page)
    THEN <<page>> \o navigateCalls_always(a, getDefaultPage(Get(a.user, "role")), depth - 1)
  ELSE <<page>>

\* the pages navigate is called with, from the first call to the last; the
\* calls beyond the depth looked at are cut off
RECURSIVE navigateCalls(_, _, _)
navigateCalls(a, page, depth) ==
  IF depth = 0 THEN <<"~unfinished">>
  ELSE IF a.user = null THEN <<page>>
  ELSE IF ~canAccess(Get(a.user, "role"), page)
    THEN LET defaultPage == getDefaultPage(Get(a.user, "role"))
         IN IF page # defaultPage
              THEN <<page>> \o navigateCalls(a, defaultPage, depth - 1)
              ELSE <<page>>
  ELSE <<page>>

\* -------------------------------------------------------- app.js: sessions
\* variant: the PIN is not compared
loginStaff_anyPin(a, pin) ==
  LET userId == a.loginUser
      k == FindBy(a.users, "id", userId)
  IN IF userId = "" THEN alert(a, "Select a user")
     ELSE IF k > 0
       THEN navigate(updateUserDisplay([a EXCEPT !.user = a.users[k],
                                                 !.rad_user = StoredJSON(a.users[k])]),
                     getDefaultPage(Get(a.users[k], "role")))
       ELSE alert(a, "Invalid PIN. Please try again.")

\* login('staff') with the PIN typed into #login-pin
loginStaff(a, pin) ==
  LET userId == a.loginUser
      k == FindBy(a.users, "id", userId)
  IN IF userId = "" THEN alert(a, "Select a user")
     ELSE IF k > 0 /\ String(Get(a.users[k], "pin")) = pin
       THEN LET user == a.users[k]
                role == Get(user, "role")
                logged == updateUserDisplay([a EXCEPT !.user = user,
                                                      !.rad_user = StoredJSON(user)])
            IN IF role = "Technician" THEN navigate(logged, "technician")
               ELSE IF role = "Reception" THEN navigate(logged, "reception")
               ELSE IF role = "Radiologist" THEN navigate(logged, "radiologist")
               ELSE navigate(logged, "admin")
       ELSE alert(a, "Invalid PIN. Please try again.")

\* variant: the passcode is compared as typed
loginPatient_exact(a, phoneInput, passInput) ==
  LET phone == trim(phoneInput)
      pass == trim(passInput)
      k == FindBy(a.patients, "phone", phone)
  IN IF phone = "" \/ pass = "" THEN alert(a, "Enter Phone and Passcode")
     ELSE IF k = 0 THEN alert(a, "Patient not found with this phone number.")
     ELSE IF passInput = toUpperCase(substring(a.patients[k]["full_name"], 3)) \o phone
       THEN LET sessionUser == [id |-> Get(a.patients[k], "id"),
                                full_name |-> Get(a.patients[k], "full_name"),
                                role |-> "Patient",
                                phone |-> Get(a.patients[k], "phone")]
            IN navigate(updateUserDisplay([a EXCEPT !.user = sessionUser,
                                                    !.rad_user = StoredJSON(sessionUser)]),
                        "patient-portal")
       ELSE alert(a, "Invalid Passcode. Format: First 3 letters of Name + Phone (e.g. AHM0123...)")

\* login('patient') with the phone and passcode typed into the form
loginPatient(a, phoneInput, passInput) ==
  LET phone == trim(phoneInput)
      pass == trim(passInput)
      k == FindBy(a.patients, "phone", phone)
  IN IF phone = "" \/ pass = "" THEN alert(a, "Enter Phone and Passcode")
     ELSE IF k = 0 THEN alert(a, "Patient not found with this phone number.")
     ELSE
       LET patient == a.patients[k]
           namePart == toUpperCase(substring(patient["full_name"], 3))
           expectedPass == namePart \o phone
       IN IF toUpperCase(pass) = expectedPass
            THEN LET sessionUser == [id |-> Get(patient, "id"),
                                     full_name |-> Get(patient, "full_name"),
                                     role |-> "Patient",
                                     phone |-> Get(patient, "phone")]
                 IN navigate(updateUserDisplay([a EXCEPT !.user = sessionUser,
                                                         !.rad_user = StoredJSON(sessionUser)]),
                             "patient-portal")
            ELSE alert(a, "Invalid Passcode. Format: First 3 letters of Name + Phone (e.g. AHM0123...)")

\* --------------------------------------------------- app.js: init, loadData
\* what an awaited API.request hands back: a parsed response, or a rejection
Resolved(result) == [ok |-> TRUE, result |-> result]
Rejected == [ok |-> FALSE, result |-> [status |-> "~none"]]

Collection(data, key) == IF key \in DOMAIN data THEN data[key] ELSE <<>>

\* variant: the visits already held are kept
loadDataSettled_keepVisits(a, outcome) ==
  LET newInfo == outcome.result.data
      updated == [a EXCEPT !.patients = Collection(newInfo, "patients"),
                           !.studies = Collection(newInfo, "studies"),
                           !.users = Collection(newInfo, "users")]
      after == IF outcome.ok /\ outcome.result.status = "success"
                 THEN populateLoginDropdown(navigate(updated, updated.currentView))
               ELSE IF ~outcome.ok THEN alert(a, "Failed to sync. Check connection.")
               ELSE a
  IN showLoading(after, FALSE)

\* loadData() from the point where API.getAllData() settles
loadDataSettled(a, outcome) ==
  LET newInfo == outcome.result.data
      updated == [a EXCEPT !.patients = Collection(newInfo, "patients"),
                           !.visits = Collection(newInfo, "visits"),
                           !.studies = Collection(newInfo, "studies"),
                           !.users = Collection(newInfo, "users")]
      after == IF outcome.ok /\ outcome.result.status = "success"
                 THEN populateLoginDropdown(navigate(updated, updated.currentView))
               ELSE IF ~outcome.ok THEN alert(a, "Failed to sync. Check connection.")
               ELSE a
  IN showLoading(after, FALSE)

\* init() from the point where loadData() returns
initSettled(a, outcome) ==
  LET loaded == loadDataSettled(a, outcome)
  IN IF loaded.rad_user # null THEN showRelogin(loaded, loaded.rad_user)
     ELSE showLogin(loaded)

\* ------------------------------------------- the dispatcher under requests
NoEvent == [name |-> "~none", arg |-> <<>>]

NoExchange ==
  [req |-> [action |-> "~none", body |-> NoBody],
   result |-> [status |-> "~none"],
   before |-> MissingStore]

\* (the last one holds two studies created with the same id)
InitStores ==
  {MissingStore, BlankStore}
    \cup {LegacyStore(st) : st \in {"Waiting", "Reporting"}}
    \cup {CurrentStore(<<StudyRecord("ST-1", st), StudyRecord("ST-2", "Waiting")>>) :
            st \in Statuses}
    \cup {CurrentStore(<<StudyRecord("ST-1", "Reporting"), StudyRecord("ST-1", "Waiting")>>)}

InitStore ==
  /\ db \in InitStores
  /\ now = 0
  /\ last = NoExchange
  /\ prev = NoExchange
  /\ served = 0
  /\ app = FreshApp(null, FALSE)
  /\ net = <<>>
  /\ ev = NoEvent

\* what the round-trip and idempotence checks look back at
Remembered(x) ==
  IF \/ x.req.action = "getAllData"
     \/ x.req.action = "updateStudyStatus" /\ x.result.status = "success"
  THEN x ELSE NoExchange

Serve(action, body, rnd) ==
  LET out == handleRequest(db, action, body, now, rnd)
  IN /\ served < MaxRequests
     /\ served' = served + 1
     /\ db' = out.db
     /\ last' = [req |-> [action |-> action, body |-> body],
                 result |-> out.result,
                 before |-> db]
     /\ prev' = Remembered(last)
     /\ UNCHANGED <<now, clientVars>>

Tick ==
  /\ now < MaxClock
  /\ now' = now + 1
  /\ UNCHANGED <<db, last, prev, served, clientVars>>

ReqGetAllData == Serve("getAllData", JsonBody(<<>>), 0)

CreatePayloads ==
  [createPatient |-> {PatientAhmed},
   createVisit |-> {VisitOne},
   createStudy |-> {StudyRecord("ST-1", "Waiting"),
                    [visit_id |-> "VS-1", status |-> "Waiting", price |-> Num(0)]},
   createUser |-> {[full_name |-> "New", role |-> "Reception", pin |-> "5555"]}]

SheetOfAction ==
  [createPatient |-> "Patients", createVisit |-> "Visits",
   createStudy |-> "Studies", createUser |-> "Users"]

ReqCreate ==
  \E action \in DOMAIN CreatePayloads :
    \E payload \in CreatePayloads[action] :
      \E rnd \in 0..(MaxRand - 1) :
        /\ DataRows(db, SheetOfAction[action]) < MaxRows
        /\ rnd = 0 \/ Falsy(Get(payload, "id"))
        /\ Serve(action, JsonBody(payload), rnd)

ReqUpdateStudyStatus ==
  \E p \in {[id |-> "ST-1", status |-> "Scanning"],
            [id |-> "ST-1", status |-> "Reporting"],
            [id |-> "ST-404", status |-> "Scanning"]} :
    Serve("updateStudyStatus", JsonBody(p), 0)

ReqSaveReport ==
  Serve("saveReport", JsonBody([study_id |-> "ST-1", content_html |-> "<p>r</p>"]), 0)

ReqMarkComplete ==
  Serve("markComplete", JsonBody([study_id |-> "ST-1"]), 0)

ReqUpdateImageLinks ==
  \E p \in {[study_id |-> "ST-1"],
            [study_id |-> "ST-1", image_links |-> <<"http://a">>]} :
    Serve("updateImageLinks", JsonBody(p), 0)

ReqSaveTemplate ==
  \E payload \in {TemplateOne, [title |-> "New", content |-> "<p>n</p>"]} :
    /\ DataRows(db, "Templates") < MaxRows \/ ~Falsy(Get(payload, "id"))
    /\ Serve("saveTemplate", JsonBody(payload), 0)

ReqDeleteTemplate ==
  \E id \in {"TPL-1", "TPL-404"} : Serve("deleteTemplate", JsonBody([id |-> id]), 0)

ReqMalformed ==
  \E r \in {[action |-> "createStudy", body |-> NoBody],
            [action |-> "updateStudyStatus", body |-> BadBody],
            [action |-> "noSuchAction", body |-> JsonBody(<<>>)],
            [action |-> Undefined, body |-> NoBody]} :
    /\ r.action = "createStudy" => DataRows(db, "Studies") < MaxRows
    /\ Serve(r.action, r.body, 0)

NextStore ==
  \/ Tick
  \/ ReqGetAllData
  \/ ReqCreate
  \/ ReqUpdateStudyStatus
  \/ ReqSaveReport
  \/ ReqMarkComplete
  \/ ReqUpdateImageLinks
  \/ ReqSaveTemplate
  \/ ReqDeleteTemplate
  \/ ReqMalformed

SpecStore == InitStore /\ [][NextStore]_vars

\* ------------------------------------------------ app.js: study workflow
\* an awaited call with nothing after it
Forget == [k |-> "forget"]

\* what a handler leaves: the client state and the requests it has issued
Sent(a, reqs) == [app |-> a, send |-> reqs]

Request(action, payload, cont) ==
  [dir |-> "req", action |-> action, body |-> JsonBody(payload), cont |-> cont,
   result |-> [status |-> "~none"]]

\* obj[key] = value
SetField(obj, key, value) ==
  [x \in DOMAIN obj \cup {key} |-> IF x = key THEN value ELSE obj[x]]

technicianRender(a) == renderPage(a, "technician")

radiologistRender(a) == renderPage(a, "radiologist")

\* the studies the technician worklist draws, and with which button
TechnicianTodo(a) ==
  {i \in 1..Len(a.studies) :
     /\ Get(a.studies[i], "status") \in {"Waiting", "Scanning"}
     /\ HasVisit(a, a.studies[i])}

isTech(a) == Get(a.user, "role") \in {"Technician", "Admin", "Radiologist"}

startScan(a, id, confirmed) ==
  IF ~hasPermission(a, "startScan")
    THEN Sent(alert(a, "Access Denied: You don't have permission to start scans."), <<>>)
  ELSE IF ~confirmed THEN Sent(a, <<>>)
  ELSE LET k == FindBy(a.studies, "id", id)
           updated == IF k > 0
                        THEN [a EXCEPT !.studies[k] = SetField(@, "status", "Scanning")]
                        ELSE a
       IN Sent(technicianRender(updated),
               <<Request("updateStudyStatus", [id |-> id, status |-> "Scanning"], Forget)>>)

completeScan(a, id, confirmed) ==
  IF ~hasPermission(a, "completeScan")
    THEN Sent(alert(a, "Access Denied: You don't have permission to complete scans."), <<>>)
  ELSE IF ~confirmed THEN Sent(a, <<>>)
  ELSE LET k == FindBy(a.studies, "id", id)
           updated == IF k > 0
                        THEN [a EXCEPT !.studies[k] = SetField(@, "status", "Reporting")]
                        ELSE a
       IN Sent(technicianRender(updated),
               <<Request("updateStudyStatus", [id |-> id, status |-> "Reporting"], Forget)>>)

switchTab(a, tab) == radiologistRender([a EXCEPT !.activeTab = tab])

toggleMyList(a) == radiologistRender([a EXCEPT !.myListMode = ~a.myListMode])

Boilerplate == "<h3>Findings</h3>"

openEditor(a, studyId) ==
  LET k == FindBy(a.studies, "id", studyId)
      study == a.studies[k]
      isAssigned == Get(study, "assigned_doctor_id") = Get(a.user, "id")
  IN [a EXCEPT !.currentStudy = k,
               !.editor = [study |-> k, isAssigned |-> isAssigned,
                           markButton |-> isAssigned /\ Get(study, "status") # "Completed"],
               !.quill = IF Falsy(Get(study, "report_content")) THEN Boilerplate
                         ELSE study["report_content"]]

markComplete(a, studyId, confirmed, t) ==
  IF ~hasPermission(a, "markComplete")
    THEN Sent(alert(a, "Access Denied: You don't have permission to mark cases as complete."), <<>>)
  ELSE IF ~confirmed THEN Sent(a, <<>>)
  ELSE LET k == FindBy(a.studies, "id", studyId)
           updated == IF k > 0
                        THEN [a EXCEPT !.studies[k] =
                                SetField(SetField(@, "status", "Completed"),
                                         "completed_at", ISO(t))]
                        ELSE a
       IN Sent(updated,
               <<Request("saveReport", [study_id |-> studyId, content_html |-> a.quill],
                         [k |-> "markComplete", study_id |-> studyId,
                          content |-> a.quill])>>)

\* variant: a failed save takes the optimistic update back to the first status
markCompleteSaved_rollback(a, cont, outcome) ==
  IF outcome.ok
    THEN Sent(a, <<Request("markComplete", [study_id |-> cont.study_id],
                           [k |-> "markCompleteDone", study_id |-> cont.study_id,
                            content |-> cont.content])>>)
    ELSE LET k == FindBy(a.studies, "id", cont.study_id)
         IN Sent([a EXCEPT !.studies[k] = SetField(@, "status", "Waiting")], <<>>)

\* variant: the markComplete request is sent whether the save succeeded or not
markCompleteSaved_regardless(a, cont, outcome) ==
  Sent(a, <<Request("markComplete", [study_id |-> cont.study_id],
                    [k |-> "markCompleteDone", study_id |-> cont.study_id,
                     content |-> cont.content])>>)

\* markComplete once saveReport has settled
markCompleteSaved(a, cont, outcome) ==
  IF outcome.ok
    THEN Sent(a, <<Request("markComplete", [study_id |-> cont.study_id],
                           [k |-> "markCompleteDone", study_id |-> cont.study_id,
                            content |-> cont.content])>>)
    ELSE Sent(a, <<>>)

\* markComplete once the markComplete request has settled
markCompleteDone(a, outcome) ==
  IF outcome.ok THEN Sent(radiologistRender([a EXCEPT !.activeTab = "completed"]), <<>>)
  ELSE Sent(a, <<>>)

\* radiologist.printReport() up to its await
printReport(a) ==
  LET study == a.studies[a.currentStudy]
  IN Sent(showLoading(a, TRUE),
          <<Request("saveReport", [study_id |-> Get(study, "id"), content_html |-> a.quill],
                    [k |-> "printReport"])>>)

printReportSaved(a, outcome) ==
  IF outcome.ok THEN Sent(showLoading(a, FALSE), <<>>)
  ELSE Sent(showLoading(alert(a, "Save failed: TypeError: Failed to fetch"), FALSE), <<>>)

\* the report viewer is laid over the page
receptionViewReport(a, studyId) ==
  [a EXCEPT !.viewer = FindBy(a.studies, "id", studyId)]

receptionPrintReport(a, studyId) ==
  LET k == FindBy(a.studies, "id", studyId)
  IN printReport([a EXCEPT !.currentStudy = k,
                           !.quill = Get(a.studies[k], "report_content")])

\* the studies whose patient is found, as the patient file requires
HasPatient(a, study) ==
  LET v == FindBy(a.visits, "id", Get(study, "visit_id"))
  IN v > 0 /\ FindBy(a.patients, "id", Get(a.visits[v], "patient_id")) > 0

\* the studies drawn with a View Report button on the page shown
ViewableReports(a) ==
  {i \in 1..Len(a.studies) :
     LET st == a.studies[i]
         v == FindBy(a.visits, "id", Get(st, "visit_id"))
     IN /\ HasPatient(a, st)
        /\ \/ a.content = "reception" /\ ~Falsy(Get(st, "report_content"))
           \/ /\ a.content = "patient-portal"
              /\ Get(a.visits[v], "patient_id") = Get(a.user, "id")
              /\ \/ ~Falsy(Get(st, "report_content")) /\ Get(st, "status") = "Ready"
                 \/ Get(st, "status") = "Reported"}

\* ---------------------------------------------------- app.js: a new visit
generateId(prefix, t, rnd) == prefix \o "-" \o ToString(t) \o "-" \o ToString(rnd)

openNewVisitModal(a, t) ==
  [a EXCEPT !.visitModal = TRUE, !.visitDate = substring(ISO(t), 16), !.tempQueue = <<>>]

closeModal(a) == [a EXCEPT !.visitModal = FALSE]

addStudyToQueue(a, mod, reg, name) ==
  IF reg = "" \/ name = "" THEN alert(a, "Please enter region and study name")
  ELSE [a EXCEPT !.tempQueue =
          Append(@, [modality |-> mod, region |-> reg, study_name |-> name])]

\* the options of #visit-assigned-doctor
DoctorOptions(a) ==
  {""} \cup {String(Get(a.users[i], "id")) :
               i \in {j \in 1..Len(a.users) : Get(a.users[j], "role") = "Radiologist"}}

PatientOptions(a) ==
  {""} \cup {String(Get(a.patients[i], "id")) : i \in 1..Len(a.patients)}

\* variant: the studies are sent along with the visit
saveVisit_together(a, patientId, assignedDoctorId, t, rnds) ==
  IF ~hasPermission(a, "createVisit")
    THEN Sent(alert(a, "Access Denied: You don't have permission to create visits."), <<>>)
  ELSE IF patientId = "" THEN Sent(alert(a, "Select a patient"), <<>>)
  ELSE IF assignedDoctorId = "" THEN Sent(alert(a, "Select a doctor"), <<>>)
  ELSE IF Len(a.tempQueue) = 0 THEN Sent(alert(a, "Add at least one study"), <<>>)
  ELSE
    LET visitId == generateId("VS", t, rnds[1])
        visitData == [id |-> visitId, patient_id |-> patientId, referrer_doctor |-> "",
                      check_in_time |-> a.visitDate,
                      assigned_doctor_id |-> assignedDoctorId,
                      status |-> "In Progress", created_at |-> ISO(t)]
        newStudies == [i \in 1..Len(a.tempQueue) |->
                         [id |-> generateId("ST", t, rnds[i + 1]), visit_id |-> visitId,
                          modality |-> a.tempQueue[i].modality,
                          region |-> a.tempQueue[i].region,
                          study_name |-> a.tempQueue[i].study_name,
                          assigned_doctor_id |-> assignedDoctorId, price |-> Num(0),
                          status |-> "Waiting", created_at |-> ISO(t)]]
        pushed == [a EXCEPT !.visits = Append(@, visitData),
                            !.studies = @ \o newStudies]
        shown == navigate(closeModal(pushed), "reception")
    IN Sent([shown EXCEPT !.tempQueue = <<>>],
            <<Request("createVisit", visitData, Forget)>>
              \o [i \in 1..Len(newStudies) |->
                    Request("createStudy", newStudies[i], Forget)])

\* saveVisit(): rnds[1] is the number drawn for the visit, rnds[i + 1] the one
\* drawn for the i-th queued study
saveVisit(a, patientId, assignedDoctorId, t, rnds) ==
  IF ~hasPermission(a, "createVisit")
    THEN Sent(alert(a, "Access Denied: You don't have permission to create visits."), <<>>)
  ELSE IF patientId = "" THEN Sent(alert(a, "Select a patient"), <<>>)
  ELSE IF assignedDoctorId = "" THEN Sent(alert(a, "Select a doctor"), <<>>)
  ELSE IF Len(a.tempQueue) = 0 THEN Sent(alert(a, "Add at least one study"), <<>>)
  ELSE
    LET visitId == generateId("VS", t, rnds[1])
        visitData == [id |-> visitId, patient_id |-> patientId, referrer_doctor |-> "",
                      check_in_time |-> a.visitDate,
                      assigned_doctor_id |-> assignedDoctorId,
                      status |-> "In Progress", created_at |-> ISO(t)]
        newStudies == [i \in 1..Len(a.tempQueue) |->
                         [id |-> generateId("ST", t, rnds[i + 1]), visit_id |-> visitId,
                          modality |-> a.tempQueue[i].modality,
                          region |-> a.tempQueue[i].region,
                          study_name |-> a.tempQueue[i].study_name,
                          assigned_doctor_id |-> assignedDoctorId, price |-> Num(0),
                          status |-> "Waiting", created_at |-> ISO(t)]]
        pushed == [a EXCEPT !.visits = Append(@, visitData),
                            !.studies = @ \o newStudies]
        shown == navigate(closeModal(pushed), "reception")
    IN Sent([shown EXCEPT !.tempQueue = <<>>],
            <<Request("createVisit", visitData,
                      [k |-> "createVisit", newStudies |-> newStudies])>>)

\* saveVisit once createVisit has settled
saveVisitSynced(a, cont, outcome) ==
  IF outcome.ok
    THEN Sent(a, [i \in 1..Len(cont.newStudies) |->
                    Request("createStudy", cont.newStudies[i], Forget)])
    ELSE Sent(a, <<>>)

\* ---------------------------------------------------- app.js: a new patient
openNewPatientModal(a) == [a EXCEPT !.patientModal = TRUE]

closeNewPatientModal(a) == [a EXCEPT !.patientModal = FALSE]

\* variant: the patient is saved whatever the form holds and whoever asks
savePatient_unchecked(a, name, dob, gender, phone, t, rnd) ==
  LET newPatient == [id |-> generateId("PT", t, rnd), full_name |-> name, dob |-> dob,
                     age |-> "", gender |-> gender, phone |-> phone,
                     complaint |-> "", diagnosis |-> "", medical_history |-> "",
                     created_at |-> ISO(t)]
  IN Sent(closeNewPatientModal([a EXCEPT !.patients = Append(@, newPatient)]),
          <<Request("createPatient", newPatient, Forget)>>)

\* savePatient(): the form holds name, dob, gender and phone; the fields added
\* later are left empty
savePatient(a, name, dob, gender, phone, t, rnd) ==
  IF ~hasPermission(a, "createPatient")
    THEN Sent(alert(a, "Access Denied: You don't have permission to create patients."),
              <<>>)
  ELSE IF name = "" \/ dob = "" THEN Sent(alert(a, "Fill required fields"), <<>>)
  ELSE
    LET newPatient == [id |-> generateId("PT", t, rnd), full_name |-> name, dob |-> dob,
                       age |-> "", gender |-> gender, phone |-> phone,
                       complaint |-> "", diagnosis |-> "", medical_history |-> "",
                       created_at |-> ISO(t)]
    IN Sent(closeNewPatientModal([a EXCEPT !.patients = Append(@, newPatient)]),
            <<Request("createPatient", newPatient, Forget)>>)

\* ------------------------------------------------ the client under events
PatientAl ==
  [id |-> "PT-2", full_name |-> "al", dob |-> "1990-01-01", gender |-> "Male",
   phone |-> "0598", created_at |-> ISO(0)]

PortalStore ==
  [CurrentStore(<<StudyRecord("ST-1", "Reported")>>) EXCEPT
     !["Patients"] = Table(schema["Patients"], <<PatientAhmed, PatientAl>>)]

Pages == {"reception", "technician", "radiologist", "admin", "patient-portal"}
NavTargets == Pages \cup {"settings"}
PinInputs == {"1234", "1111", "2222", "3333", "0000"}
PhoneInputs == {"0599", " 0599 ", "0598", "0597", ""}
PasscodeInputs == {"AHM0599", "ahm0599", " AHM0599", "AHMED0599", "AL0598", "AHM0598"}

Gone == [k |-> "gone"]

Remove(msgs, i) == SubSeq(msgs, 1, i - 1) \o SubSeq(msgs, i + 1, Len(msgs))

\* the page goes away: requests already sent still reach the backend, nobody
\* waits for an answer any more
Orphaned(msgs) ==
  LET sent == SelectSeq(msgs, LAMBDA m : m.dir = "req")
  IN [i \in 1..Len(sent) |-> [sent[i] EXCEPT !.cont = Gone]]

\* DOMContentLoaded: App.init() runs up to its await of loadData()
Boot(stored, modalShown) == showLoading(FreshApp(stored, modalShown), TRUE)

Event(name, arg) == [name |-> name, arg |-> arg]

\* a handler starts with the previous alert dismissed
Idle(a) == [a EXCEPT !.alerted = ""]

\* neither the loading overlay nor the report viewer covers the page
Interactive(a) == ~a.loading /\ a.viewer = 0

\* the code after an await, by the call that was awaited
resume(a, cont, outcome) ==
  CASE cont.k = "init" -> Sent(initSettled(a, outcome), <<>>)
    [] cont.k = "markComplete" -> markCompleteSaved(a, cont, outcome)
    [] cont.k = "markCompleteDone" -> markCompleteDone(a, outcome)
    [] cont.k = "printReport" -> printReportSaved(a, outcome)
    [] cont.k = "createVisit" -> saveVisitSynced(a, cont, outcome)
    [] OTHER -> Sent(a, <<>>)

\* room for n more requests under way
CanSend(n) == Len(net) + n <= MaxPending + 1

InitAuth ==
  /\ db \in {PortalStore, BlankStore}
  /\ now = 0
  /\ last = NoExchange
  /\ prev = NoExchange
  /\ served = 0
  /\ \E m \in BOOLEAN : app = Boot(null, m)
  /\ net = <<Request("getAllData", <<>>, [k |-> "init"])>>
  /\ ev = NoEvent

Reload ==
  /\ CanSend(1 + Len(Orphaned(net)) - Len(net))
  /\ \E m \in BOOLEAN : app' = Boot(app.rad_user, m)
  /\ net' = Orphaned(net) \o <<Request("getAllData", <<>>, [k |-> "init"])>>
  /\ ev' = Event("reload", <<>>)
  /\ UNCHANGED storeVars

Logout ==
  /\ Interactive(app)
  /\ app.user # null
  /\ CanSend(1 + Len(Orphaned(net)) - Len(net))
  /\ \E m \in BOOLEAN : app' = Boot(null, m)
  /\ net' = Orphaned(net) \o <<Request("getAllData", <<>>, [k |-> "init"])>>
  /\ ev' = Event("logout", <<>>)
  /\ UNCHANGED storeVars

NavigateTo(page) ==
  /\ Interactive(app)
  /\ app' = navigate(Idle(app), page)
  /\ ev' = Event("navigate", <<page>>)
  /\ UNCHANGED <<storeVars, net>>

Navigate == \E page \in NavTargets : NavigateTo(page)

ChooseUser ==
  \E v \in SeqToSet(LoginOptions(app)) :
    /\ ~app.loading
    /\ app.loginModal
    /\ app.mode = "staff"
    /\ app' = SelectValue(Idle(app), v)
    /\ ev' = Event("chooseUser", <<v>>)
    /\ UNCHANGED <<storeVars, net>>

SwitchLogin ==
  \E mode \in {"staff", "patient"} :
    /\ ~app.loading
    /\ app.loginModal
    /\ app' = switchLogin(Idle(app), mode)
    /\ ev' = Event("switchLogin", <<mode>>)
    /\ UNCHANGED <<storeVars, net>>

LoginStaffWith(pin) ==
  /\ ~app.loading
  /\ app.loginModal
  /\ app.mode = "staff"
  /\ app' = loginStaff(Idle(app), pin)
  /\ ev' = Event("loginStaff", <<pin>>)
  /\ UNCHANGED <<storeVars, net>>

LoginStaff == \E pin \in PinInputs : LoginStaffWith(pin)

LoginPatient ==
  \E phone \in PhoneInputs, pass \in PasscodeInputs :
    /\ ~app.loading
    /\ app.loginModal
    /\ app.mode = "patient"
    /\ app' = loginPatient(Idle(app), phone, pass)
    /\ ev' = Event("loginPatient", <<phone, pass>>)
    /\ UNCHANGED <<storeVars, net>>

\* the backend executes one request that has reached it; a number is drawn
\* where the request makes createRow generate an id
doPost ==
  \E i \in 1..Len(net) :
    /\ net[i].dir = "req"
    /\ LET base == handleRequest(db, net[i].action, net[i].body, now, 0)
           drawn == MaxRand > 1
                      /\ handleRequest(db, net[i].action, net[i].body, now, 1).db # base.db
       IN \E rnd \in IF drawn THEN 0..(MaxRand - 1) ELSE {0} :
         LET out == IF rnd = 0 THEN base
                    ELSE handleRequest(db, net[i].action, net[i].body, now, rnd)
         IN /\ db' = out.db
            /\ net' = IF net[i].cont \in {Gone, Forget} THEN Remove(net, i)
                      ELSE [net EXCEPT ![i] = [@ EXCEPT !.dir = "res",
                                                        !.result = out.result]]
    /\ UNCHANGED <<now, last, prev, served, app, ev>>

\* response.json() resolves; the answer is taken up when the requests that
\* follow it have room
Receive ==
  \E i \in 1..Len(net) :
    /\ net[i].dir = "res"
    /\ LET step == resume(Idle(app), net[i].cont, Resolved(net[i].result))
       IN /\ Len(net) - 1 + Len(step.send) <= MaxPending + 1
          /\ app' = step.app
          /\ net' = Remove(net, i) \o step.send
    /\ ev' = Event("receive", <<net[i].action>>)
    /\ UNCHANGED storeVars

\* fetch rejects: the request never arrived, or its answer was lost
FetchFails ==
  \E i \in 1..Len(net) :
    /\ net[i].cont # Gone
    /\ LET step == resume(Idle(app), net[i].cont, Rejected)
       IN /\ app' = step.app
          /\ net' = Remove(net, i) \o step.send
    /\ ev' = Event("fetchFails", <<net[i].action>>)
    /\ UNCHANGED storeVars

NextAuth ==
  \/ Reload
  \/ Logout
  \/ Navigate
  \/ ChooseUser
  \/ SwitchLogin
  \/ LoginStaff
  \/ LoginPatient
  \/ doPost
  \/ Receive
  \/ FetchFails

SpecAuth == InitAuth /\ [][NextAuth]_vars

\* ------------------------------------------------- the center at work
StudyInputs == {<<"US", "Abdomen", "US Abdomen">>, <<"US", "", "US Abdomen">>}

\* a handler that may call the backend
Handle(step, name, arg) ==
  /\ CanSend(Len(step.send))
  /\ app' = step.app
  /\ net' = net \o step.send
  /\ ev' = Event(name, arg)

Init ==
  /\ db \in {CurrentStore(<<StudyRecord("ST-1", st)>>) : st \in {"Waiting", "Reporting"}}
  /\ now = 0
  /\ last = NoExchange
  /\ prev = NoExchange
  /\ served = 0
  /\ \E m \in BOOLEAN : app = Boot(null, m)
  /\ net = <<Request("getAllData", <<>>, [k |-> "init"])>>
  /\ ev = NoEvent

StartScan ==
  \E i \in TechnicianTodo(app), confirmed \in BOOLEAN :
    /\ Interactive(app)
    /\ app.content = "technician"
    /\ isTech(app)
    /\ Get(app.studies[i], "status") = "Waiting"
    /\ Handle(startScan(Idle(app), Get(app.studies[i], "id"), confirmed),
              "startScan", <<Get(app.studies[i], "id")>>)
    /\ UNCHANGED storeVars

CompleteScan ==
  \E i \in TechnicianTodo(app), confirmed \in BOOLEAN :
    /\ Interactive(app)
    /\ app.content = "technician"
    /\ isTech(app)
    /\ Get(app.studies[i], "status") = "Scanning"
    /\ Handle(completeScan(Idle(app), Get(app.studies[i], "id"), confirmed),
              "completeScan", <<Get(app.studies[i], "id")>>)
    /\ UNCHANGED storeVars

SwitchTab ==
  \E tab \in {"reporting", "completed"} :
    /\ Interactive(app)
    /\ app.content = "radiologist"
    /\ app' = switchTab(Idle(app), tab)
    /\ ev' = Event("switchTab", <<tab>>)
    /\ UNCHANGED <<storeVars, net>>

OpenEditor ==
  \E i \in app.listed :
    /\ Interactive(app)
    /\ app.content = "radiologist"
    /\ app' = openEditor(Idle(app), Get(app.studies[i], "id"))
    /\ ev' = Event("openEditor", <<Get(app.studies[i], "id")>>)
    /\ UNCHANGED <<storeVars, net>>

MarkComplete ==
  \E confirmed \in BOOLEAN :
    /\ Interactive(app)
    /\ app.editor.study > 0
    /\ app.editor.markButton
    /\ Handle(markComplete(Idle(app), Get(app.studies[app.editor.study], "id"),
                           confirmed, now),
              "markComplete", <<Get(app.studies[app.editor.study], "id")>>)
    /\ UNCHANGED storeVars

SignAndPrint ==
  /\ Interactive(app)
  /\ app.editor.study > 0
  /\ app.editor.isAssigned
  /\ Handle(printReport(Idle(app)), "printReport", <<>>)
  /\ UNCHANGED storeVars

ViewReport ==
  \E i \in ViewableReports(app) :
    /\ Interactive(app)
    /\ app' = receptionViewReport(Idle(app), Get(app.studies[i], "id"))
    /\ ev' = Event("viewReport", <<Get(app.studies[i], "id")>>)
    /\ UNCHANGED <<storeVars, net>>

CloseViewer ==
  /\ ~app.loading
  /\ app.viewer > 0
  /\ app' = [Idle(app) EXCEPT !.viewer = 0]
  /\ ev' = Event("closeViewer", <<>>)
  /\ UNCHANGED <<storeVars, net>>

PrintFromViewer ==
  /\ ~app.loading
  /\ app.viewer > 0
  /\ Handle(receptionPrintReport(Idle(app), Get(app.studies[app.viewer], "id")),
            "receptionPrintReport", <<Get(app.studies[app.viewer], "id")>>)
  /\ UNCHANGED storeVars

OpenNewVisitModal ==
  /\ Interactive(app)
  /\ app.content = "reception"
  /\ ~app.visitModal
  /\ app' = openNewVisitModal(Idle(app), now)
  /\ ev' = Event("openNewVisitModal", <<>>)
  /\ UNCHANGED <<storeVars, net>>

CloseModal ==
  /\ Interactive(app)
  /\ app.visitModal
  /\ app' = closeModal(Idle(app))
  /\ ev' = Event("closeModal", <<>>)
  /\ UNCHANGED <<storeVars, net>>

AddStudyToQueue ==
  \E in \in StudyInputs :
    /\ Interactive(app)
    /\ app.visitModal
    /\ Len(app.tempQueue) < MaxQueue
    /\ app' = addStudyToQueue(Idle(app), in[1], in[2], in[3])
    /\ ev' = Event("addStudyToQueue", in)
    /\ UNCHANGED <<storeVars, net>>

\* The numbers drawn for ids are told apart only by being equal or not, and
\* a visit's id never equals a study's: one draw stands for all that are
\* equal in the same places (the visit's number and the first study's are 0,
\* a later study's number is one drawn before or the next unused one). No
\* number is drawn when the handler generates no id.
Drawn(rnds, generates) ==
  IF generates
    THEN /\ rnds[1] = 0
         /\ \A i \in 2..Len(rnds) :
              rnds[i] <= SetMax({0} \cup {rnds[j] + 1 : j \in 2..(i - 1)})
    ELSE \A i \in 1..Len(rnds) : rnds[i] = 0

\* the handler after this one runs at a later millisecond
SaveVisit ==
  \E patientId \in PatientOptions(app), doctorId \in DoctorOptions(app),
     rnds \in [1..(Len(app.tempQueue) + 1) -> 0..(MaxRand - 1)] :
    /\ Interactive(app)
    /\ app.visitModal
    /\ now < MaxClock
    /\ Drawn(rnds, saveVisit(Idle(app), patientId, doctorId, now, rnds).send # <<>>)
    /\ Handle(saveVisit(Idle(app), patientId, doctorId, now, rnds),
              "saveVisit", <<patientId, doctorId, rnds>>)
    /\ now' = now + 1
    /\ UNCHANGED <<db, last, prev, served>>

PatientInputs == {<<"", "1990-01-01">>, <<"Sami", "">>, <<"Sami", "1990-01-01">>}

OpenNewPatientModal ==
  /\ Interactive(app)
  /\ app.content = "reception"
  /\ ~app.patientModal
  /\ app' = openNewPatientModal(Idle(app))
  /\ ev' = Event("openNewPatientModal", <<>>)
  /\ UNCHANGED <<storeVars, net>>

CloseNewPatientModal ==
  /\ Interactive(app)
  /\ app.patientModal
  /\ app' = closeNewPatientModal(Idle(app))
  /\ ev' = Event("closeNewPatientModal", <<>>)
  /\ UNCHANGED <<storeVars, net>>

SavePatient ==
  \E in \in PatientInputs, rnd \in {0} :
    /\ Interactive(app)
    /\ app.patientModal
    /\ now < MaxClock
    /\ Handle(savePatient(Idle(app), in[1], in[2], "Male", "0597", now, rnd),
              "savePatient", <<in[1], in[2], rnd>>)
    /\ now' = now + 1
    /\ UNCHANGED <<db, last, prev, served>>

\* the pages of the staff
WorkPages == {"reception", "technician", "radiologist", "admin"}

\* staff sign in with their own PIN
SignIn == \E pin \in PinInputs : LoginStaffWith(pin) /\ app'.user # null

Next ==
  \/ Logout
  \/ \E page \in WorkPages : NavigateTo(page)
  \/ ChooseUser
  \/ SignIn
  \/ StartScan
  \/ CompleteScan
  \/ SwitchTab
  \/ OpenEditor
  \/ MarkComplete
  \/ SignAndPrint
  \/ ViewReport
  \/ CloseViewer
  \/ PrintFromViewer
  \/ doPost
  \/ Receive
  \/ FetchFails

Spec == Init /\ [][Next]_vars

\* ------------------------------------------------- the reception desk
InitVisit ==
  /\ db = CurrentStore(<<StudyRecord("ST-1", "Waiting")>>)
  /\ now = 0
  /\ last = NoExchange
  /\ prev = NoExchange
  /\ served = 0
  /\ \E m \in BOOLEAN : app = Boot(null, m)
  /\ net = <<Request("getAllData", <<>>, [k |-> "init"])>>
  /\ ev = NoEvent

NextVisit ==
  \/ Logout
  \/ ChooseUser
  \/ SignIn
  \/ OpenNewVisitModal
  \/ CloseModal
  \/ AddStudyToQueue
  \/ SaveVisit
  \/ doPost
  \/ Receive
  \/ FetchFails

SpecVisit == InitVisit /\ [][NextVisit]_vars

\* ------------------------------------------- the forms of the reception desk
\* a center with a receptionist and a radiologist
DeskStore ==
  [CurrentStore(<<StudyRecord("ST-1", "Waiting")>>) EXCEPT
     !["Users"] = Table(schema["Users"],
                        <<UserRecord("USR-R", "Radiologist", Num(1111)),
                          UserRecord("USR-C", "Reception", "3333")>>)]

InitDesk ==
  /\ db = DeskStore
  /\ now = 0
  /\ last = NoExchange
  /\ prev = NoExchange
  /\ served = 0
  /\ \E m \in BOOLEAN : app = Boot(null, m)
  /\ net = <<Request("getAllData", <<>>, [k |-> "init"])>>
  /\ ev = NoEvent

\* one session from the loaded page to the forms for a visit and a patient,
\* over a connection that holds
NextDesk ==
  \/ ChooseUser
  \/ SignIn
  \/ OpenNewVisitModal
  \/ AddStudyToQueue
  \/ SaveVisit
  \/ OpenNewPatientModal
  \/ SavePatient
  \/ doPost
  \/ Receive

SpecDesk == InitDesk /\ [][NextDesk]_vars

\* the patient form over page loads
NextPatient ==
  \/ Logout
  \/ \E page \in WorkPages : NavigateTo(page)
  \/ ChooseUser
  \/ SignIn
  \/ OpenNewPatientModal
  \/ CloseNewPatientModal
  \/ SavePatient
  \/ doPost
  \/ Receive
  \/ FetchFails

SpecPatient == InitVisit /\ [][NextPatient]_vars

\* the new-visit form over a connection that may fail
NextSync ==
  \/ ChooseUser
  \/ SignIn
  \/ OpenNewVisitModal
  \/ AddStudyToQueue
  \/ SaveVisit
  \/ doPost
  \/ Receive
  \/ FetchFails

SpecSync == InitDesk /\ [][NextSync]_vars

\* ------------------------------------------------------ the scanning room
ScanStore ==
  [CurrentStore(<<StudyRecord("ST-1", "Waiting"), StudyRecord("ST-2", "Scanning")>>) EXCEPT
     !["Users"] = Table(schema["Users"], <<UserRecord("USR-T", "Technician", "2222")>>)]

InitScan ==
  /\ db = ScanStore
  /\ now = 0
  /\ last = NoExchange
  /\ prev = NoExchange
  /\ served = 0
  /\ \E m \in BOOLEAN : app = Boot(null, m)
  /\ net = <<Request("getAllData", <<>>, [k |-> "init"])>>
  /\ ev = NoEvent

\* one technician at the worklist, one page load, over a connection that may
\* fail
NextScan ==
  \/ ChooseUser
  \/ SignIn
  \/ StartScan
  \/ CompleteScan
  \/ doPost
  \/ Receive
  \/ FetchFails

SpecScan == InitScan /\ [][NextScan]_vars

\* ------------------------------------------- Code.gs: requests side by side
\* Every request is an execution of its own; the script lock is the only thing
\* between two of them. An execution under way is kept in net with the place
\* it has reached, what tryLock returned, and what updateRow has read.
LockWait == 1

Execution(action, payload, t) ==
  [action |-> action, body |-> JsonBody(payload), pc |-> "tryLock", since |-> t,
   got |-> FALSE, rowIndex |-> 0, headers |-> <<>>, todo |-> <<>>,
   result |-> [status |-> "~none"]]

\* the execution holds the script lock
Holds(m) == m.got /\ m.pc \in {"updateRow", "setValue", "releaseLock"}

\* variant: the lock is granted whoever holds it
tryLock_granted(msgs, i) == TRUE

\* what lock.tryLock(10000) returns to execution i
tryLock(msgs, i) == \A k \in 1..Len(msgs) : k # i => ~Holds(msgs[k])

\* the sheet, the id and the updates the dispatcher passes to updateRow
UpdateCall(action, payload, t) ==
  CASE action = "updateStudyStatus" ->
         [sheet |-> "Studies", id |-> Get(payload, "id"),
          updates |-> <<<<"status", Get(payload, "status")>>>>]
    [] action = "saveReport" ->
         [sheet |-> "Studies", id |-> Get(payload, "study_id"),
          updates |-> <<<<"report_content", Get(payload, "content_html")>>,
                        <<"status", "Reported">>>>]
    [] action = "markComplete" ->
         [sheet |-> "Studies", id |-> Get(payload, "study_id"),
          updates |-> <<<<"status", "Completed">>, <<"completed_at", ISO(t)>>>>]

LockRequests ==
  {<<"updateStudyStatus", [id |-> "ST-1", status |-> "Scanning"]>>,
   <<"saveReport", [study_id |-> "ST-1", content_html |-> "<p>Normal study.</p>"]>>,
   <<"markComplete", [study_id |-> "ST-1"]>>,
   <<"markComplete", [study_id |-> "ST-9"]>>}

InitLock ==
  /\ db = CurrentStore(<<StudyRecord("ST-1", "Reporting")>>)
  /\ now = 0
  /\ last = NoExchange
  /\ prev = NoExchange
  /\ served = 0
  /\ app = FreshApp(null, FALSE)
  /\ net = <<>>
  /\ ev = NoEvent

\* doPost(e): a request arrives and its execution starts
Arrive ==
  \E req \in LockRequests :
    /\ served < MaxRequests
    /\ served' = served + 1
    /\ net' = Append(net, Execution(req[1], req[2], now))
    /\ ev' = Event("doPost", <<req[1]>>)
    /\ UNCHANGED <<db, now, last, prev, app>>

\* time passes while executions run or wait
LockTick ==
  /\ now < MaxClock
  /\ net # <<>>
  /\ now' = now + 1
  /\ ev' = Event("tick", <<>>)
  /\ UNCHANGED <<db, last, prev, served, app, net>>

\* lock.tryLock(10000) returns: true as soon as the lock is free, false when
\* the wait has run out; the value is not looked at and the try block begins
TryLock ==
  \E i \in 1..Len(net) :
    /\ net[i].pc = "tryLock"
    /\ tryLock(net, i) \/ now >= net[i].since + LockWait
    /\ net' = [net EXCEPT ![i] = [@ EXCEPT !.got = tryLock(net, i), !.pc = "updateRow"]]
    /\ ev' = Event("tryLock", <<i>>)
    /\ UNCHANGED <<storeVars, app>>

\* updateRow up to its writes: the data range is read and the row looked up
ReadRow ==
  \E i \in 1..Len(net) :
    /\ net[i].pc = "updateRow"
    /\ LET call == UpdateCall(net[i].action, net[i].body.val, now)
           rows == db[call.sheet].rows
           rowIndex == FindRow(rows, call.id)
       IN net' = [net EXCEPT ![i] =
                    IF rowIndex = 0
                      THEN [@ EXCEPT !.pc = "releaseLock",
                                     !.result = ErrorResult("ID not found")]
                      ELSE [@ EXCEPT !.pc = "setValue", !.rowIndex = rowIndex,
                                     !.headers = getValues(rows)[1],
                                     !.todo = call.updates]]
    /\ ev' = Event("updateRow", <<i>>)
    /\ UNCHANGED <<storeVars, app>>

\* one turn of the forEach of updateRow: one cell is written; after the last
\* one updateRow returns
WriteCell ==
  \E i \in 1..Len(net) :
    /\ net[i].pc = "setValue"
    /\ LET sheetName == UpdateCall(net[i].action, net[i].body.val, now).sheet
       IN db' = [db EXCEPT ![sheetName] =
                   Sheet(WriteColumns(db[sheetName].rows, net[i].rowIndex,
                                      net[i].headers, <<Head(net[i].todo)>>))]
    /\ net' = [net EXCEPT ![i] =
                 IF Len(@.todo) = 1
                   THEN [@ EXCEPT !.todo = <<>>, !.pc = "releaseLock",
                                  !.result = [status |-> "success"]]
                   ELSE [@ EXCEPT !.todo = Tail(@)]]
    /\ ev' = Event("setValue", <<i>>)
    /\ UNCHANGED <<now, last, prev, served, app>>

\* finally { lock.releaseLock() }, and the response goes out
ReleaseLock ==
  \E i \in 1..Len(net) :
    /\ net[i].pc = "releaseLock"
    /\ net' = [net EXCEPT ![i] = [@ EXCEPT !.pc = "answered"]]
    /\ ev' = Event("releaseLock", <<i>>)
    /\ UNCHANGED <<storeVars, app>>

\* the caller has its answer
Answered ==
  \E i \in 1..Len(net) :
    /\ net[i].pc = "answered"
    /\ net' = Remove(net, i)
    /\ ev' = Event("answered", <<net[i].action, net[i].result.status>>)
    /\ UNCHANGED <<storeVars, app>>

NextLock ==
  \/ Arrive
  \/ LockTick
  \/ TryLock
  \/ ReadRow
  \/ WriteCell
  \/ ReleaseLock
  \/ Answered

SpecLock == InitLock /\ [][NextLock]_vars

\* ------------------------------------------------------------ the router
\* a store in which one user carries a role the permission table does not list
NavStore ==
  [CurrentStore(<<StudyRecord("ST-1", "Waiting")>>) EXCEPT
     !["Users"] = Table(schema["Users"],
                        <<UserRecord("USR-R", "Radiologist", Num(1111)),
                          UserRecord("USR-C", "Reception", "3333"),
                          UserRecord("USR-N", "Nurse", "2222")>>)]

InitNav ==
  /\ db = NavStore
  /\ now = 0
  /\ last = NoExchange
  /\ prev = NoExchange
  /\ served = 0
  /\ \E m \in BOOLEAN : app = Boot(null, m)
  /\ net = <<Request("getAllData", <<>>, [k |-> "init"])>>
  /\ ev = NoEvent

\* the sessions of SpecAuth over this store
SpecNav == InitNav /\ [][NextAuth]_vars

\* ------------------------------------------------------ the report editor
ReportTexts == {"<p>Normal study.</p>"}

\* the radiologist types in the editor, which is read-only for a study
\* assigned to someone else
TypeReport ==
  \E text \in ReportTexts :
    /\ Interactive(app)
    /\ app.editor.study > 0
    /\ app.editor.isAssigned
    /\ app.quill # text
    /\ app' = [Idle(app) EXCEPT !.quill = text]
    /\ ev' = Event("typeReport", <<text>>)
    /\ UNCHANGED <<storeVars, net>>

ReportStore ==
  [CurrentStore(<<StudyRecord("ST-1", "Reporting")>>) EXCEPT
     !["Users"] = Table(schema["Users"],
                        <<UserRecord("USR-R", "Radiologist", Num(1111))>>)]

InitReport ==
  /\ db = ReportStore
  /\ now = 0
  /\ last = NoExchange
  /\ prev = NoExchange
  /\ served = 0
  /\ \E m \in BOOLEAN : app = Boot(null, m)
  /\ net = <<Request("getAllData", <<>>, [k |-> "init"])>>
  /\ ev = NoEvent

\* one radiologist at the editor of a study, over a connection that may fail
NextReport ==
  \/ ChooseUser
  \/ SignIn
  \/ OpenEditor
  \/ TypeReport
  \/ MarkComplete
  \/ SignAndPrint
  \/ doPost
  \/ Receive
  \/ FetchFails

SpecReport == InitReport /\ [][NextReport]_vars

\* one radiologist at the editor, one page load, every request answered
NextQuiet ==
  \/ ChooseUser
  \/ SignIn
  \/ SwitchTab
  \/ OpenEditor
  \/ TypeReport
  \/ MarkComplete
  \/ SignAndPrint
  \/ doPost
  \/ Receive

SpecQuiet == InitReport /\ [][NextQuiet]_vars

\* ------------------------------------------------ the radiologists' list
\* a second radiologist, to whom no study is assigned
ListStore ==
  [CurrentStore(<<StudyRecord("ST-1", "Waiting")>>) EXCEPT
     !["Users"] = Table(schema["Users"],
                        StaffUsers \o <<UserRecord("USR-R2", "Radiologist", "1111")>>)]

InitList ==
  /\ db = ListStore
  /\ now = 0
  /\ last = NoExchange
  /\ prev = NoExchange
  /\ served = 0
  /\ \E m \in BOOLEAN : app = Boot(null, m)
  /\ net = <<Request("getAllData", <<>>, [k |-> "init"])>>
  /\ ev = NoEvent

ToggleMyList ==
  /\ Interactive(app)
  /\ app.content = "radiologist"
  /\ app' = toggleMyList(Idle(app))
  /\ ev' = Event("toggleMyList", <<>>)
  /\ UNCHANGED <<storeVars, net>>

NextList ==
  \/ Logout
  \/ \E page \in WorkPages : NavigateTo(page)
  \/ ChooseUser
  \/ SignIn
  \/ StartScan
  \/ CompleteScan
  \/ SwitchTab
  \/ ToggleMyList
  \/ doPost
  \/ Receive
  \/ FetchFails

SpecList == InitList /\ [][NextList]_vars

\* ------------------------------------------------------------------ claims
RoundTripCase ==
  /\ last.req.action = "getAllData"
  /\ prev.req.action = "updateStudyStatus"
  /\ prev.result.status = "success"
  /\ prev.req.body.val["status"] = "Scanning"

\* C9: a successful updateStudyStatus(id, "Scanning") on an existing Study,
\* directly followed by getAllData, returns that Study with status "Scanning"
\* and every other column of it unchanged, every other Study unchanged, and
\* the update has touched no other sheet.
C9_RoundTrip ==
  RoundTripCase =>
    LET id == prev.req.body.val["id"]
        base == getSheetData(prev.before, "Studies")
        k == FindRow(prev.before["Studies"].rows, id) - 1
        got == last.result.data.studies
    IN /\ k >= 1
       /\ Len(got) = Len(base)
       /\ Get(got[k], "status") = "Scanning"
       /\ \A i \in 1..Len(base) : \A h \in DOMAIN base[i] :
            (i # k \/ h # "status") => got[i][h] = ToJSON(base[i][h])
       /\ \A s \in DOMAIN db \ {"Studies"} : last.before[s] = prev.before[s]

C9_Witness ==
  /\ RoundTripCase
  /\ Len(getSheetData(prev.before, "Studies")) >= 2
  /\ getSheetData(prev.before, "Studies")[1]["status"] = "Reporting"
  /\ last.result.data.studies[1]["status"] = "Scanning"

TwoFetches ==
  /\ last.req.action = "getAllData"
  /\ prev.req.action = "getAllData"

\* C10: two getAllData requests with no request in between return identical
\* collections, also when the first one had to create or migrate the sheets.
C10_Idempotent ==
  TwoFetches => last.result = prev.result

C10_Witness ==
  /\ TwoFetches
  /\ prev.before # last.before
  /\ Len(last.result.data.users) >= 1

\* the status a collection of Study objects shows for an id: that of the first
\* one with the id, as find() and updateRow pick it
StatusIn(studies, id) ==
  LET k == FindBy(studies, "id", id)
  IN IF k = 0 THEN "~none" ELSE Get(studies[k], "status")

ClientStatus(id) == StatusIn(app.studies, id)

RowStatus(id) == StatusIn(getSheetData(db, "Studies"), id)

Edges ==
  {<<"Waiting", "Scanning">>, <<"Scanning", "Reporting">>, <<"Reporting", "Reported">>,
   <<"Reporting", "Completed">>, <<"Reported", "Completed">>}

\* the statuses of the collection before and after a step, element by element
StatusChanges(before, after) ==
  {<<Get(before[i], "status"), Get(after[i], "status")>> :
     i \in {j \in 1..Len(before) :
              /\ j <= Len(after)
              /\ Get(after[j], "id") = Get(before[j], "id")
              /\ Get(after[j], "status") # Get(before[j], "status")}}

\* C1: every change of a Study's status, in the client's Application State or
\* in the backend Studies row, is one of the edges Waiting->Scanning,
\* Scanning->Reporting, Reporting->Reported, Reporting->Completed,
\* Reported->Completed.
C1_EdgesOnly ==
  [][/\ StatusChanges(app.studies, app'.studies) \subseteq Edges
     /\ StatusChanges(getSheetData(db, "Studies"), getSheetData(db', "Studies"))
          \subseteq Edges]_vars

IsCompleted(id) == ClientStatus(id) = "Completed" \/ RowStatus(id) = "Completed"

IsWaiting(id) == ClientStatus(id) = "Waiting" \/ RowStatus(id) = "Waiting"

\* C2: once a Study is Completed, in the client's Application State or in its
\* backend row, it is never Waiting again in either place, whatever the client
\* does afterwards (scans, reports, printing, viewing, signing out and loading
\* the data again).
C2_NeverWaitingAgain ==
  \A id \in {"ST-1"} : [](IsCompleted(id) => [](~IsWaiting(id)))


\* the Studies row of ST-1 was marked Completed, Sign & Print has since
\* been answered, and the client still shows the Study Completed
C2_Witness ==
  /\ ClientStatus("ST-1") = "Completed"
  /\ RowStatus("ST-1") = "Reported"
  /\ LET rows == getSheetData(db, "Studies")
     IN ~Falsy(Get(rows[FindBy(rows, "id", "ST-1")], "completed_at"))
  /\ ev = Event("receive", <<"saveReport">>)

\* the ids of every object in Application State
IdsOf(coll) == {Get(coll[i], "id") : i \in 1..Len(coll)}

IdsInState(a) ==
  IdsOf(a.patients) \cup IdsOf(a.visits) \cup IdsOf(a.studies) \cup IdsOf(a.users)

\* saveVisit goes through: the user may create visits, a patient and a doctor
\* are selected and n >= 1 studies are queued
SaveVisitStep(n) ==
  /\ ev' = Event("saveVisit", ev'.arg)
  /\ ev'.arg[1] # ""
  /\ ev'.arg[2] # ""
  /\ hasPermission(app, "createVisit")
  /\ Len(app.tempQueue) = n

\* C3: right after saveVisit with a patient selected and N >= 1 studies
\* queued, before any response, Application State holds exactly one new Visit
\* and exactly N new Studies, each Waiting and with visit_id the new Visit's
\* id, and the N + 1 new ids differ from each other and from every id that
\* was in the state.
C3_OptimisticCreation ==
  [][\A n \in 1..MaxQueue :
       SaveVisitStep(n) =>
         LET visit == app'.visits[Len(app'.visits)]
             created == SubSeq(app'.studies, Len(app.studies) + 1, Len(app'.studies))
             fresh == <<Get(visit, "id")>> \o [i \in 1..Len(created) |-> Get(created[i], "id")]
         IN /\ app'.visits = Append(app.visits, visit)
            /\ app'.studies = app.studies \o created
            /\ Len(created) = n
            /\ \A i \in 1..n :
                 /\ Get(created[i], "status") = "Waiting"
                 /\ Get(created[i], "visit_id") = Get(visit, "id")
            /\ \A i, j \in 1..(n + 1) : i # j => fresh[i] # fresh[j]
            /\ \A i \in 1..(n + 1) : fresh[i] \notin IdsInState(app)]_vars


\* the actions of the dispatcher's switch, and the sheet each one works on
KnownActions ==
  {"getAllData", "createPatient", "createVisit", "createStudy", "createUser",
   "updateStudyStatus", "saveReport", "markComplete", "updateImageLinks",
   "saveTemplate", "deleteTemplate"}

TargetSheet(action) ==
  CASE action = "createPatient" -> "Patients"
    [] action = "createVisit" -> "Visits"
    [] action = "createUser" -> "Users"
    [] action \in {"saveTemplate", "deleteTemplate"} -> "Templates"
    [] OTHER -> "Studies"

\* the id a request addresses an existing row by, Undefined when it creates
AddressedId(action, payload) ==
  CASE action = "updateStudyStatus" -> Get(payload, "id")
    [] action \in {"saveReport", "markComplete", "updateImageLinks"} ->
         Get(payload, "study_id")
    [] action = "deleteTemplate" -> Get(payload, "id")
    [] action = "saveTemplate" /\ ~Falsy(Get(payload, "id")) -> payload["id"]
    [] OTHER -> Undefined

Addresses(action, payload) ==
  \/ action \in {"updateStudyStatus", "saveReport", "markComplete",
                  "updateImageLinks", "deleteTemplate"}
  \/ action = "saveTemplate" /\ ~Falsy(Get(payload, "id"))

\* an exchange whose request the dispatcher cannot fulfil: no such action, no
\* payload object, no sheet or no header row to work on, or no row with the id
Unfulfillable(x) ==
  /\ x.req.action # "~none"
  /\ \/ x.req.action \notin KnownActions
     \/ /\ x.req.action # "getAllData"
        /\ \/ x.req.body.kind # "json"
           \/ ~x.before[TargetSheet(x.req.action)].exists
           \/ IF Addresses(x.req.action, x.req.body.val)
                THEN FindRow(x.before[TargetSheet(x.req.action)].rows,
                             AddressedId(x.req.action, x.req.body.val)) = 0
                ELSE getLastColumn(x.before[TargetSheet(x.req.action)].rows) = 0

IsText(v) == v # Undefined /\ ~IsNum(v) /\ ~IsDate(v)

\* C12: a request the dispatcher cannot fulfil (unknown or missing action, id
\* not found, missing or unparseable payload, missing sheet) is answered
\* {status: "error", message: <string>}, never "success", and leaves the
\* store as it was.
C12_ErrorResponses ==
  Unfulfillable(last) =>
    /\ DOMAIN last.result = {"status", "message"}
    /\ last.result.status = "error"
    /\ IsText(last.result.message)
    /\ db = last.before

C12_Witness ==
  /\ last.req.action = "updateStudyStatus"
  /\ last.req.body = JsonBody([id |-> "ST-404", status |-> "Scanning"])
  /\ DataRows(last.before, "Studies") >= 2
  /\ last.result = ErrorResult("ID not found")

RoleOf(u) == Get(u, "role")

\* a radiologist looks at the Reporting tab
ReportingTabShown ==
  /\ app.user # null
  /\ RoleOf(app.user) = "Radiologist"
  /\ app.content = "radiologist"
  /\ app.activeTab = "reporting"

AssignedToUser(i) == Get(app.studies[i], "assigned_doctor_id") = Get(app.user, "id")

\* the studies the backend holds as scanned and awaiting or holding a report
ScannedStudies ==
  {i \in 1..Len(app.studies) :
     /\ Get(app.studies[i], "status") \in {"Reporting", "Reported"}
     /\ HasVisit(app, app.studies[i])}

\* C11 (as stated): a Study shown in a radiologist's Reporting tab is assigned
\* to that radiologist; a radiologist who is not the assigned doctor does not
\* see it there.
C11_AsStated ==
  ReportingTabShown => \A i \in app.listed : AssignedToUser(i)

\* C11 (amended): with the list on "All Patients", as it is after loading, the
\* Reporting tab shows every scanned Study to every radiologist; with the list
\* switched to "My List" it shows a Study only to its assigned doctor.
C11_MyListOnly ==
  ReportingTabShown =>
    /\ app.myListMode => \A i \in app.listed : AssignedToUser(i)
    /\ ~app.myListMode => app.listed = ScannedStudies
    /\ app.listed \subseteq ScannedStudies
    /\ \A i \in ScannedStudies : AssignedToUser(i) => i \in app.listed

\* the technician has scanned ST-1; the other radiologist sees it under All
\* Patients
C11_Witness ==
  /\ ReportingTabShown
  /\ Get(app.user, "id") = "USR-R2"
  /\ ~app.myListMode
  /\ app.listed = {1}
  /\ Get(app.studies[1], "assigned_doctor_id") = "USR-R"
  /\ RowStatus("ST-1") = "Reporting"

RolesInUse ==
  {RoleOf(app.users[i]) : i \in 1..Len(app.users)}
    \cup (IF app.user = null THEN {} ELSE {RoleOf(app.user)})

\* C4: for every role a user or session carries, the role's default page is
\* one of the role's allowed pages and canAccess grants it.
C4_DefaultPageAllowed ==
  \A role \in RolesInUse :
    /\ getDefaultPage(role) \in SeqToSet(getAllowedPages(role))
    /\ canAccess(role, getDefaultPage(role))

C4_Witness ==
  /\ app.user # null
  /\ RolesInUse = {"Reception", "Technician", "Radiologist", "Admin", "Patient"}

NavigateStep(page) ==
  /\ ev' = Event("navigate", <<page>>)
  /\ app' = navigate(Idle(app), page)

\* C5: whenever a step puts a view on the page or changes currentView (the
\* page load apart), a session exists, its role may access that view, and
\* the view is both rendered and current; a navigate without a session
\* renders nothing, keeps currentView and shows the login form.
C5_NavigateGuard ==
  [][/\ (~app'.loading /\ (app'.content # app.content
                            \/ app'.currentView # app.currentView))
          => /\ app'.user # null
             /\ canAccess(RoleOf(app'.user), app'.currentView)
             /\ app'.content = app'.currentView
     /\ \A page \in NavTargets :
          (NavigateStep(page) /\ app.user = null)
            => /\ app'.content = app.content
               /\ app'.currentView = app.currentView
               /\ app'.user = null
               /\ app'.loginModal]_vars

C5_Witness ==
  /\ ev = Event("navigate", <<"admin">>)
  /\ app.user = null
  /\ app.loginModal
  /\ app.content = "none"
  /\ app.currentView = "reception"
  /\ app.rad_user # null

\* C6: a logged-in user who navigates to a page the role may not access ends
\* with currentView equal to the role's default page and that page rendered.
C6_RedirectToDefault ==
  [][\A page \in NavTargets :
       (NavigateStep(page) /\ app.user # null
          /\ ~canAccess(RoleOf(app.user), page))
         => /\ app'.currentView = getDefaultPage(RoleOf(app.user))
            /\ app'.content = getDefaultPage(RoleOf(app.user))
            /\ app'.user = app.user]_vars

C6_Witness ==
  /\ ev = Event("navigate", <<"admin">>)
  /\ app.user # null
  /\ RoleOf(app.user) = "Radiologist"
  /\ app.currentView = "reception"
  /\ app.content = "reception"

PatientLoginStep(phone, pass) ==
  /\ ev' = Event("loginPatient", <<phone, pass>>)
  /\ app' = loginPatient(Idle(app), phone, pass)

\* the passcode the documented rule derives for a patient record
DerivedPasscode(patient) ==
  toUpperCase(substring(patient["full_name"], 3)) \o patient["phone"]

SessionOf(patient) ==
  [id |-> patient["id"], full_name |-> patient["full_name"],
   role |-> "Patient", phone |-> patient["phone"]]

StaffLoginStep(pin) ==
  /\ ev' = Event("loginStaff", <<pin>>)
  /\ app' = loginStaff(Idle(app), pin)

\* C8: a staff login makes U the session exactly when U is the selected user
\* and the PIN typed equals String(U.pin); then U's whole record is stored
\* under rad_user; otherwise the session, the stored session and currentView
\* stay as they were.
C8_StaffPin ==
  [][\A pin \in PinInputs :
       StaffLoginStep(pin) =>
         LET k == FindBy(app.users, "id", app.loginUser)
         IN IF app.loginUser # "" /\ k > 0 /\ String(app.users[k]["pin"]) = pin
              THEN /\ app'.user = app.users[k]
                   /\ app'.rad_user = app.users[k]
              ELSE /\ app'.user = app.user
                   /\ app'.rad_user = app.rad_user
                   /\ app'.currentView = app.currentView]_vars

C8_Witness ==
  /\ ev = Event("loginStaff", <<"1111">>)
  /\ app.user # null
  /\ app.user["id"] = "USR-R"
  /\ app.user["pin"] = Num(1111)
  /\ app.rad_user = app.user

\* ------------------------------------------------- permissions at the calls
\* the action a controller method answers for in the table of hasPermission
PermissionOf ==
  [saveVisit |-> "createVisit",
   startScan |-> "startScan",
   completeScan |-> "completeScan",
   markComplete |-> "markComplete",
   printReport |-> "writeReport",
   receptionPrintReport |-> "writeReport"]

\* the step is a call of a guarded controller method by a session that the
\* table denies
\* (a handler only adds to the requests under way; the backend's step answers
\* or drops one of them)
DeniedCall ==
  /\ ev'.name \in DOMAIN PermissionOf
  /\ Len(net') >= Len(net)
  /\ SubSeq(net', 1, Len(net)) = net
  /\ ~hasPermission(app, PermissionOf[ev'.name])

\* the call is turned away: a message, nothing sent, no collection touched
Rejects ==
  /\ app'.alerted # ""
  /\ net' = net
  /\ app'.patients = app.patients
  /\ app'.visits = app.visits
  /\ app'.studies = app.studies
  /\ app'.users = app.users

\* C13: a call of saveVisit, startScan, completeScan, markComplete or
\* printReport (from the editor or from the report viewer) by a session
\* without the permission raises a message, sends no request and leaves the
\* collections as they were.
C13_PermissionConsulted == [][DeniedCall => Rejects]_vars

\* ------------------------------------------------------ the patient session
PatientSession == app.user # null /\ RoleOf(app.user) = "Patient"

\* C14: while the session's role is Patient, hasPermission is false for every
\* action of the table, currentView is "patient-portal" and the page shown is
\* the patient portal, whatever pages navigate has been asked for.
C14_PatientConfined ==
  PatientSession =>
    /\ \A action \in DOMAIN actionPermissions : ~hasPermission(app, action)
    /\ app.currentView = "patient-portal"
    /\ app.content = "patient-portal"

C14_Witness ==
  /\ PatientSession
  /\ ev = Event("navigate", <<"admin">>)
  /\ app.currentView = "patient-portal"
  /\ app.content = "patient-portal"

\* ------------------------------------------------------- rejected actions
\* the step is a call of the named handler
HandlerStep(name) ==
  /\ ev'.name = name
  /\ Len(net') >= Len(net)
  /\ SubSeq(net', 1, Len(net)) = net

\* the call meets one of the handler's guards: a required field is missing
\* or the session lacks the permission
RejectedCall ==
  \/ /\ HandlerStep("saveVisit")
     /\ \/ ~hasPermission(app, "createVisit")
        \/ ev'.arg[1] = ""
        \/ ev'.arg[2] = ""
        \/ Len(app.tempQueue) = 0
  \/ /\ HandlerStep("savePatient")
     /\ \/ ~hasPermission(app, "createPatient")
        \/ ev'.arg[1] = ""
        \/ ev'.arg[2] = ""
  \/ \E name \in {"startScan", "completeScan", "markComplete"} :
       HandlerStep(name) /\ ~hasPermission(app, name)

CreateCase ==
  /\ last.req.action \in DOMAIN SheetOfAction
  /\ last.req.body.kind = "json"
  /\ last.result.status = "success"

IdPrefix == [createPatient |-> "PT", createVisit |-> "VS",
             createStudy |-> "ST", createUser |-> "USR"]

\* what createRow is to leave when every supplied field is stored as given
\* (strict), or when only the supplied fields that are not falsy are
CreateRowLeaves(strict) ==
  LET action == last.req.action
      sheet == SheetOfAction[action]
      data == last.req.body.val
      was == getSheetData(last.before, sheet)
      is == getSheetData(db, sheet)
      row == is[Len(is)]
  IN /\ Len(is) = Len(was) + 1
     /\ SubSeq(is, 1, Len(was)) = was
     /\ \A s \in DOMAIN db \ {sheet} : db[s] = last.before[s]
     /\ last.result.data["id"] \in
          IF ~Falsy(Get(data, "id")) THEN {data["id"]}
          ELSE {IdPrefix[action] \o "-" \o ToString(n) : n \in 0..(MaxRand - 1)}
     /\ \A h \in DOMAIN row :
          IF h = "id" THEN row[h] = last.result.data["id"]
          ELSE IF h = "created_at"
            THEN IF ~Falsy(Get(data, h)) THEN row[h] = data[h] ELSE IsDate(row[h])
          ELSE IF h \in DOMAIN data /\ (strict \/ ~Falsy(data[h]))
            THEN row[h] = data[h]
          ELSE row[h] = ""
     /\ DOMAIN last.result = {"status", "data"}
     /\ DOMAIN last.result.data = {"id"}

\* C16: createRow appends exactly one row and changes no other; the row's id
\* is the given one or the prefix, "-" and a generated integer; created_at is
\* the given one or the current time; each cell holds the supplied value of
\* its header, or "" when none was supplied; the response is success with the
\* stored id.
C16_CreateRow == CreateCase => CreateRowLeaves(TRUE)

\* what does hold: the cells of the supplied fields that are not falsy
CreateRowKeepsTruthy == CreateCase => CreateRowLeaves(FALSE)

\* ------------------------------------------------------------- updateRow
\* the last request was one that updates the row with an id, on a sheet that
\* exists
UpdateCase ==
  /\ last.req.action \in KnownActions \ {"getAllData", "deleteTemplate"}
  /\ last.req.body.kind = "json"
  /\ Addresses(last.req.action, last.req.body.val)
  /\ last.before[TargetSheet(last.req.action)].exists

\* the fields the dispatcher hands to updateRow, each with the values it may
\* carry (the completion time is the time of the request)
FieldsOf(action, payload) ==
  CASE action = "updateStudyStatus" -> [status |-> {Get(payload, "status")}]
    [] action = "saveReport" ->
         [report_content |-> {Get(payload, "content_html")}, status |-> {"Reported"}]
    [] action = "markComplete" ->
         [status |-> {"Completed"}, completed_at |-> {ISO(t) : t \in 0..MaxClock}]
    [] action = "updateImageLinks" ->
         [image_links |-> {IF "image_links" \in DOMAIN payload
                             THEN StringifyLinks(payload["image_links"])
                             ELSE StringifyLinks(<<>>)}]
    [] OTHER -> [key \in DOMAIN payload |-> {payload[key]}]

\* C17: updateRow overwrites the named columns of the first row whose first
\* column equals the id and leaves every other cell of the sheet and every
\* other sheet as it was; when no row has the id it answers
\* {status: "error", message: "ID not found"} and the store is unchanged.
C17_UpdateRow ==
  UpdateCase =>
    LET action == last.req.action
        sheet == TargetSheet(action)
        fields == FieldsOf(action, last.req.body.val)
        was == getValues(last.before[sheet].rows)
        is == getValues(db[sheet].rows)
        hits == {i \in 2..Len(was) :
                   String(was[i][1]) = String(AddressedId(action, last.req.body.val))}
    IN IF hits = {}
         THEN /\ last.result = ErrorResult("ID not found")
              /\ db = last.before
         ELSE /\ last.result = [status |-> "success"]
              /\ \A s \in DOMAIN db \ {sheet} : db[s] = last.before[s]
              /\ Len(is) <= Len(was)
              /\ \A r \in 1..Len(was) : \A c \in 1..Len(was[r]) :
                   IF r = SetMin(hits) /\ was[1][c] \in DOMAIN fields
                     THEN CellOf(is, r, c) \in fields[was[1][c]]
                     ELSE CellOf(is, r, c) = was[r][c]

\* two rows carry the id; the first one is written, the second one is not
C17_Witness ==
  /\ UpdateCase
  /\ last.req.action = "updateStudyStatus"
  /\ last.req.body.val = [id |-> "ST-1", status |-> "Scanning"]
  /\ LET was == getSheetData(last.before, "Studies")
         is == getSheetData(db, "Studies")
     IN /\ Len(was) = 2
        /\ was[1]["id"] = "ST-1" /\ was[2]["id"] = "ST-1"
        /\ was[1]["status"] = "Reporting" /\ was[2]["status"] = "Waiting"
        /\ is[1]["status"] = "Scanning" /\ is[2]["status"] = "Waiting"

\* --------------------------------------------------------------- loadData
\* the step takes up the answer to the getAllData of loadData
LoadAnswered(i) ==
  /\ net[i].dir = "res"
  /\ net[i].cont.k = "init"
  /\ net' = Remove(net, i)
  /\ ev' = Event("receive", <<"getAllData">>)

\* the step is the rejection of the fetch of loadData
LoadFails(i) ==
  /\ net[i].cont.k = "init"
  /\ net' = Remove(net, i)
  /\ ev' = Event("fetchFails", <<"getAllData">>)

Collections == {"patients", "visits", "studies", "users"}

Rank == [Waiting |-> 1, Scanning |-> 2, Reporting |-> 3, Reported |-> 4, Completed |-> 5]

Forward == {pair \in (DOMAIN Rank) \X (DOMAIN Rank) : Rank[pair[1]] < Rank[pair[2]]}

\* C19: the status in a Study's backend row never moves backward in the order
\* Waiting < Scanning < Reporting < Reported < Completed, whatever the order
\* in which the requests of startScan, completeScan, Sign & Print and
\* markComplete reach the backend.
C19_NeverBackward ==
  [][StatusChanges(getSheetData(db, "Studies"), getSheetData(db', "Studies"))
       \subseteq Forward]_vars

\* ------------------------------------------- the desk and the portal at work
\* the session belongs to a role with no part in the workflow of a Study
BystanderSession ==
  app.user # null /\ RoleOf(app.user) \in {"Reception", "Patient"}

\* the requests a handler's step has added to those under way
\* (a handler only adds requests; the backend's step answers or drops one)
NewRequests ==
  IF Len(net') >= Len(net) /\ SubSeq(net', 1, Len(net)) = net /\ db' = db
    THEN SubSeq(net', Len(net) + 1, Len(net'))
    ELSE <<>>

\* the status changes the request makes in the Studies rows when it is served
RowChangesOf(req) ==
  StatusChanges(getSheetData(db, "Studies"),
                getSheetData(handleRequest(db, req.action, req.body, now, 0).db, "Studies"))

\* C20: no step taken in a Reception or Patient session changes the status of
\* a Study in Application State or sends a request that changes the status of
\* a Studies row, viewing and printing a report included.
C20_BystandersChangeNothing ==
  [][BystanderSession =>
       /\ StatusChanges(app.studies, app'.studies) = {}
       /\ \A k \in 1..Len(NewRequests) : RowChangesOf(NewRequests[k]) = {}]_vars

\* --------------------------------------------------------------- C21
Count(msgs, m) == Cardinality({k \in 1..Len(msgs) : msgs[k] = m})

\* the requests of an action named `action` that the step puts under way
Issued(action) ==
  {m \in SeqToSet(net') :
     m.action = action /\ m.dir = "req" /\ Count(net', m) > Count(net, m)}

\* the answer to the saveReport of markComplete is taken at this step
SaveAnswered(i) ==
  /\ net[i].dir = "res"
  /\ net[i].action = "saveReport"
  /\ net[i].cont.k = "markComplete"
  /\ ev' = Event("receive", <<"saveReport">>)
  /\ Len(net') = Len(net)
  /\ SubSeq(net', 1, Len(net) - 1) = Remove(net, i)

\* the backend serves request i of this page at this step
ServedStep(i, action) ==
  /\ net[i].dir = "req"
  /\ net[i].action = action
  /\ Len(net') = Len(net)
  /\ net'[i].dir = "res"
  /\ net' = [net EXCEPT ![i] = net'[i]]
  /\ app' = app

StudyRow(d, id) ==
  LET rows == getSheetData(d, "Studies")
  IN rows[FindBy(rows, "id", id)]

\* the markComplete request follows the answer to the saveReport of the same
\* action and nothing else
SaveFirst ==
  \A m \in Issued("markComplete") :
    \E i \in 1..Len(net) :
      /\ SaveAnswered(i)
      /\ m.body.val["study_id"] = net[i].body.val["study_id"]

VisitAnswered(i) ==
  /\ net[i].dir = "res"
  /\ net[i].action = "createVisit"
  /\ net[i].cont.k = "createVisit"
  /\ ev' = Event("receive", <<"createVisit">>)

\* the fetch of request i of the named action rejects at this step
FailedStep(i, action) ==
  /\ net[i].action = action
  /\ ev' = Event("fetchFails", <<action>>)
  /\ Len(net') >= Len(net) - 1
  /\ SubSeq(net', 1, Len(net) - 1) = Remove(net, i)
  /\ db' = db

VisitRows(d) == getSheetData(d, "Visits")

IsPrefix(short, long) ==
  Len(short) <= Len(long) /\ SubSeq(long, 1, Len(short)) = short

\* C22: saveVisit sends createVisit alone; the createStudy requests are sent
\* only when the answer to that createVisit is received, and they are those of
\* the studies queued; when the createVisit fails no createStudy is sent; when
\* a createStudy fails nothing is sent in its place, and no step, that one
\* included, takes a Visit out of Application State or out of the backend.
C22_VisitBeforeStudies ==
  [][/\ HandlerStep("saveVisit") =>
          /\ Issued("createStudy") = {}
          /\ \A k \in (Len(net) + 1)..Len(net') : net'[k].action = "createVisit"
     /\ Issued("createStudy") # {} =>
          \E i \in 1..Len(net) :
            /\ VisitAnswered(i)
            /\ net' = Remove(net, i)
                        \o [k \in 1..Len(net[i].cont.newStudies) |->
                              Request("createStudy", net[i].cont.newStudies[k], Forget)]
     /\ \A i \in 1..Len(net) :
          /\ FailedStep(i, "createVisit") => net' = Remove(net, i)
          /\ FailedStep(i, "createStudy") => net' = Remove(net, i)
     /\ IsPrefix(app.visits, app'.visits)
     /\ IsPrefix(VisitRows(db), VisitRows(db'))]_vars

\* the createVisit of a visit with two studies was answered and one of the
\* two createStudy requests has failed: the visit is in Application State and
\* in the backend, and neither study is in the backend
C22_Witness ==
  /\ ev = Event("fetchFails", <<"createStudy">>)
  /\ Len(net) = 1
  /\ net[1].action = "createStudy"
  /\ Len(app.visits) = 2
  /\ Len(VisitRows(db)) = 2
  /\ Get(VisitRows(db)[2], "id") = Get(app.visits[2], "id")
  /\ Len(app.studies) = 3
  /\ DataRows(db, "Studies") = 1

\* --------------------------------------------------------------- C23
OptimisticWrites == {"createVisit", "createPatient", "createStudy", "updateStudyStatus"}

\* the write of request i never reaches the backend: its fetch rejects
WriteFails(i) ==
  /\ net[i].dir = "req"
  /\ net[i].action \in OptimisticWrites
  /\ FailedStep(i, net[i].action)

\* client and backend hold different statuses for the Study
Diverged(id) == ClientStatus(id) # RowStatus(id)

\* a status the client has written to its copy is neither in the row nor on
\* its way there: the write that carried it was lost
WriteLost(id) ==
  /\ app.user # null
  /\ \E st \in DOMAIN Rank :
       /\ Rank[RowStatus(id)] < Rank[st]
       /\ Rank[st] <= Rank[ClientStatus(id)]
       /\ \A k \in 1..Len(net) :
            ~(/\ net[k].action = "updateStudyStatus"
              /\ net[k].body.val["id"] = id
              /\ net[k].body.val["status"] = st)

\* C23: when the fetch of an optimistic write rejects, Application State is
\* left as the handler wrote it and nothing is sent again; and once a status
\* write of a Study is lost, the copy of the Study differs from its row after
\* every step taken on the page, which is not loaded again here.
C23_NoRollbackNoRetry ==
  [][/\ \A i \in 1..Len(net) :
          WriteFails(i) =>
            /\ net' = Remove(net, i)
            /\ \A c \in Collections : app'[c] = app[c]
     /\ \A id \in {"ST-1", "ST-2"} : WriteLost(id) => Diverged(id)']_vars

\* the first part alone
NoRollbackNoRetry ==
  [][\A i \in 1..Len(net) :
       WriteFails(i) =>
         /\ net' = Remove(net, i)
         /\ \A c \in Collections : app'[c] = app[c]]_vars

\* --------------------------------------------------------------- C24
\* the execution is between the return of tryLock and the release
InSection(m) == m.pc \in {"updateRow", "setValue", "releaseLock"}

\* C24: an execution whose tryLock returned false goes through the try block
\* like any other: once answered it has made every write of its updateRow
\* and carries the answer updateRow gives (success, or "ID not found" for an
\* id no row has); and two executions are between tryLock and releaseLock at
\* the same time only if tryLock returned false to one of them.
C24_LockAdvisory ==
  /\ \A i \in 1..Len(net) :
       net[i].pc = "answered" =>
         /\ net[i].todo = <<>>
         /\ net[i].result =
              IF FindRow(db["Studies"].rows,
                         UpdateCall(net[i].action, net[i].body.val, now).id) = 0
                THEN ErrorResult("ID not found")
                ELSE [status |-> "success"]
  /\ \A i, j \in 1..Len(net) :
       (i # j /\ InSection(net[i]) /\ InSection(net[j]))
         => ~(net[i].got /\ net[j].got)

\* saveReport holds the lock and has written report_content; markComplete,
\* whose wait for the lock ran out, has written status "Completed" on the same
\* row; each has one more cell to write
C24_Witness ==
  \E i, j \in 1..Len(net) :
    /\ net[i].action = "saveReport" /\ net[i].got
    /\ net[j].action = "markComplete" /\ ~net[j].got
    /\ net[i].pc = "setValue" /\ net[j].pc = "setValue"
    /\ net[i].rowIndex = net[j].rowIndex
    /\ Len(net[i].todo) = 1 /\ Len(net[j].todo) = 1
    /\ StudyRow(db, "ST-1")["status"] = "Completed"
    /\ StudyRow(db, "ST-1")["report_content"] = "<p>Normal study.</p>"
    /\ StudyRow(db, "ST-1")["completed_at"] = ""

\* --------------------------------------------------------------- C25
\* the last request served was a getAllData, which runs setup first
SetupCase == last.req.action = "getAllData"

\* the sheet held nothing before: it was missing or blank
FirstCreated(sh) == ~sh.exists \/ getLastRow(sh.rows) = 0

\* what setup may do to a sheet that held something: the header row keeps its
\* columns in their places and gains the missing ones of the schema after
\* them, and every data row keeps its place and its cells
OnlyAdded(before, after, sheetName) ==
  LET old == getValues(before.rows)
      new == getValues(after.rows)
      missing == SelectSeq(schema[sheetName], LAMBDA h : h \notin SeqToSet(old[1]))
  IN /\ new[1] = old[1] \o missing
     /\ Len(new) = Len(old)
     /\ \A r \in 2..Len(old) : \A c \in 1..Len(new[1]) :
          new[r][c] = IF c <= Len(old[1]) THEN old[r][c] ELSE ""

\* a sheet created by setup holds the headers of the schema, and the Users
\* sheet the default administrator besides
Seeded(after, sheetName, t) ==
  getValues(after.rows)
    = IF sheetName = "Users"
        THEN getValues(<<schema[sheetName], DefaultAdminRow(t)>>)
        ELSE <<schema[sheetName]>>

SetupLeaves(sheets) ==
  \A s \in sheets :
    IF FirstCreated(last.before[s])
      THEN \E t \in 0..MaxClock : Seeded(db[s], s, t)
      ELSE OnlyAdded(last.before[s], db[s], s)

\* C25: setup, as run by getAllData, leaves every sheet that held something
\* with its columns and its data rows as they were and the missing headers
\* appended, and writes the headers (and, for Users, the default
\* administrator) only into a sheet that was missing or blank.
C25_SetupOnlyAdds == SetupCase => SetupLeaves(SeqToSet(SHEETS))

\* the same for every sheet but Users
SetupAddsElsewhere == SetupCase => SetupLeaves(SeqToSet(SHEETS) \ {"Users"})

\* the same for a Users sheet whose first header is not "email"
SetupAddsToCurrentUsers ==
  (SetupCase /\ last.before["Users"].exists
     /\ CellOf(last.before["Users"].rows, 1, 1) # "email")
    => SetupLeaves({"Users"})

\* --------------------------------------------------------------- C26
\* init goes on from its await of loadData with a session found in storage
InitWithSession ==
  /\ app.rad_user # null
  /\ \E i \in 1..Len(net) : LoadAnswered(i) \/ LoadFails(i)

\* C26: init with a saved session leaves App.state.user null and renders no
\* view, and shows the login form with the saved user selected whenever that
\* user is among those offered.
C26_ReloginPreselected ==
  [][InitWithSession =>
       /\ app'.user = null
       /\ app'.content = "none"
       /\ app'.loginModal
       /\ app'.mode = "staff"
       /\ String(Get(app.rad_user, "id")) \in SeqToSet(LoginOptions(app'))
            => app'.loginUser = String(Get(app.rad_user, "id"))]_vars

\* all of it but the selection
ReloginShown ==
  [][InitWithSession =>
       /\ app'.user = null
       /\ app'.content = "none"
       /\ app'.loginModal
       /\ app'.mode = "staff"]_vars

\* --------------------------------------------------------------- C27
StaffRoles == {"Reception", "Technician", "Radiologist", "Admin"}

\* the staff login of this step succeeds
LoggedIn(pin) ==
  /\ StaffLoginStep(pin)
  /\ app.user = null
  /\ app'.user # null
  /\ RoleOf(app'.user) \in StaffRoles

\* C27: a successful staff login leaves currentView, and the view rendered,
\* equal to the default page of the user's role, the first entry of the
\* role's list in the permission table.
C27_LandsOnDefault ==
  [][\A pin \in PinInputs :
       LoggedIn(pin) =>
         /\ app'.currentView = getDefaultPage(RoleOf(app'.user))
         /\ app'.currentView = permissions[RoleOf(app'.user)][1]
         /\ app'.content = app'.currentView]_vars

\* where login does land: on the page named after the role
LandsOnOwnPage ==
  [][\A pin \in PinInputs :
       LoggedIn(pin) =>
         /\ app'.currentView =
              [Reception |-> "reception", Technician |-> "technician",
               Radiologist |-> "radiologist", Admin |-> "admin"][RoleOf(app'.user)]
         /\ app'.content = app'.currentView]_vars

\* --------------------------------------------------------------- C28
\* C28: for every page asked for and every session, a role the permission
\* table does not list included, navigate is called at most twice: the call
\* for the page and, when that page is denied and is not the role's default
\* page, one call for the default page, which is not redirected again.
C28_OneRedirect ==
  [][\A page \in NavTargets :
       NavigateStep(page) =>
         LET calls == navigateCalls(Idle(app), page, MaxDepth)
         IN /\ Len(calls) <= 2
            /\ "~unfinished" \notin SeqToSet(calls)
            /\ calls[1] = page
            /\ Len(calls) = 2 =>
                 /\ app.user # null
                 /\ ~canAccess(RoleOf(app.user), page)
                 /\ calls[2] = getDefaultPage(RoleOf(app.user))
                 /\ calls[2] # page
            /\ app'.currentView =
                 IF app.user # null /\ canAccess(RoleOf(app.user), calls[Len(calls)])
                   THEN calls[Len(calls)]
                   ELSE app.currentView]_vars

\* a user whose role the table does not list has asked for the admin page:
\* the redirect to "reception" was denied as well and nothing is rendered
C28_Witness ==
  /\ ev = Event("navigate", <<"admin">>)
  /\ app.user # null
  /\ RoleOf(app.user) = "Nurse"
  /\ ~canAccess("Nurse", getDefaultPage("Nurse"))
  /\ app.content = "none"

\* --------------------------------------------------------------- C29
\* every request of the session has been answered and taken
AtRest == app.user # null /\ net = <<>> /\ ~app.loading

Agrees(study, row, field) == Get(study, field) = Get(row, field)

\* C29: with one client and no request failing, whenever the actions taken
\* on the Studies are complete the copy of every Study in Application State
\* agrees with its backend row on status, report_content and image_links.
C29_ClientAgrees ==
  AtRest =>
    \A i \in 1..Len(app.studies) :
      LET row == StudyRow(db, Get(app.studies[i], "id"))
      IN \A field \in {"status", "report_content", "image_links"} :
           Agrees(app.studies[i], row, field)

\* agreement on the status after the actions that write one locally
StatusAgreesButForPrint ==
  (AtRest /\ RowStatus("ST-1") # "Reported") => ClientStatus("ST-1") = RowStatus("ST-1")

\* --------------------------------------------------------------- C30
\* no two data rows of a sheet with an id column hold the same id, as
\* updateRow and deleteRow compare ids
UniqueIds(d) ==
  \A s \in DOMAIN d :
    LET rows == getSheetData(d, s)
    IN \A i, j \in 1..Len(rows) :
         (i # j /\ "id" \in DOMAIN rows[i])
           => String(rows[i]["id"]) # String(rows[j]["id"])

CreatedLast ==
  /\ last.req.action \in DOMAIN CreatePayloads
  /\ last.result.status = "success"

\* C30: a create request served on a store whose ids are unique leaves the
\* ids of every collection unique, whether the id came with the request or
\* was generated.
C30_UniqueIds == (CreatedLast /\ UniqueIds(last.before)) => UniqueIds(db)

\* the same for the requests that bring no id, when the number drawn is none
\* of those in use
FreshDrawKeepsUnique ==
  (CreatedLast /\ UniqueIds(last.before)
     /\ Falsy(Get(last.req.body.val, "id"))
     /\ \A s \in DOMAIN db : \A i \in 1..Len(getSheetData(last.before, s)) :
          Get(getSheetData(last.before, s)[i], "id") # last.result.data["id"])
    => UniqueIds(db)
====
